---------------------------- MODULE Spec2Model ----------------------------
(***************************************************************************)
(* A model of the yt-dlp GUI back end: the download orchestrator           *)
(* (ytdlp/downloader.rs), the binary locator (ytdlp/manager.rs) and the    *)
(* self-updater (ytdlp/updater.rs).                                        *)
(*                                                                         *)
(* Conventions                                                             *)
(*   Option<T>   : None is <<>>, Some(x) is <<x>>.                         *)
(*   a line      : a sequence of tokens, the whitespace-separated words of *)
(*                 the text line.  A token is [k, d]: k is the word itself *)
(*                 for the words the code looks for, or the lexical class  *)
(*                 of the word ("pct", "size", "tsize", "speed", "word");  *)
(*                 d holds the characters of a class token that the code   *)
(*                 parses (the numeral of "<numeral>%").                   *)
(*   f64 percent : an integer number of tenths of a percent.               *)
(*   an argument : a sequence of text pieces; joining is concatenation.    *)
(*   JSON        : a line of output is not JSON, a value that is not an    *)
(*                 object, or an object with the members the code reads.   *)
(***************************************************************************)
EXTENDS Integers, Sequences, FiniteSets, TLC

VARIABLES
    fs,     \* the files: bin (downloader binary), tmp (its .tmp sibling), ffmpeg, outdir
    dl,     \* download calls (Downloader::download), by call id
    inst,   \* install calls (Updater::download_ytdlp), by call id
    st,     \* status checks (Updater::check_update_status), by call id
    info,   \* metadata queries (Downloader::get_video_info), by call id
    line,   \* the line handed to the line classifier
    cls,    \* what the classifier returned for it: <<>> before, <<Option<event>>> after
    app,    \* AppState (the two locks and what they guard) and the progress channel
    cmd     \* the commands of lib.rs that were invoked, by command id

vars == <<fs, dl, inst, st, info, line, cls, app, cmd>>

(***************************************************************************)
(* Bounds of the model.                                                    *)
(***************************************************************************)
MaxLines == 2      \* stdout lines a child writes
PipeCap == 1       \* lines (stdout) or blocks (stderr) an OS pipe buffers
MaxErr == 2        \* blocks a child writes to its error stream
NChunks == 2       \* chunks of the artifact's response body

None == <<>>
Some(x) == <<x>>

(***************************************************************************)
(* Tokens and lines.                                                       *)
(***************************************************************************)
Tok(k) == [k |-> k, d |-> <<>>]
Pct(d) == [k |-> "pct", d |-> d]
Word(c) == [k |-> "word", d |-> <<c>>]

Digits == {"0", "1", "2", "3", "4", "5", "6", "7", "8", "9"}

DigitVal(c) ==
    CASE c = "0" -> 0 [] c = "1" -> 1 [] c = "2" -> 2 [] c = "3" -> 3
      [] c = "4" -> 4 [] c = "5" -> 5 [] c = "6" -> 6 [] c = "7" -> 7
      [] c = "8" -> 8 [] c = "9" -> 9

\* The capture (\d+\.?\d*) directly followed by "%": the characters of the
\* token before its "%" are digits, then at most one dot, then digits.
NumeralOK(d) ==
    /\ Len(d) >= 1
    /\ d[1] \in Digits
    /\ \A i \in 1..Len(d) : d[i] \in Digits \cup {"."}
    /\ Cardinality({i \in 1..Len(d) : d[i] = "."}) <= 1

RECURSIVE IntOf(_)
IntOf(ds) == IF ds = <<>> THEN 0 ELSE 10 * IntOf(SubSeq(ds, 1, Len(ds) - 1)) + DigitVal(ds[Len(ds)])

ParseF64Truncating(d) ==
    LET dots == {i \in 1..Len(d) : d[i] = "."}
        p == IF dots = {} THEN Len(d) + 1 ELSE CHOOSE i \in dots : TRUE
    IN  10 * IntOf(SubSeq(d, 1, p - 1))
\* str::parse::<f64>() of a numeral with at most one fractional digit, in tenths.
ParseF64(d) ==
    LET dots == {i \in 1..Len(d) : d[i] = "."}
        p == IF dots = {} THEN Len(d) + 1 ELSE CHOOSE i \in dots : TRUE
        whole == SubSeq(d, 1, p - 1)
        frac == SubSeq(d, p + 1, Len(d))
    IN  10 * IntOf(whole) + (IF frac = <<>> THEN 0 ELSE DigitVal(frac[1]))

Tenths(p) == 10 * p

(***************************************************************************)
(* DownloadProgress and the line classifier of the read loop.              *)
(***************************************************************************)
Progress(status, percentage, speed, eta, filename) ==
    [status |-> status, percentage |-> percentage, speed |-> speed,
     eta |-> eta, filename |-> filename, total_bytes |-> None, downloaded_bytes |-> None]

\* line.starts_with("[youtube]") || line.starts_with("[info]") || line.contains("Extracting")
IsExtracting(l) ==
    \/ Len(l) >= 1 /\ l[1].k \in {"[youtube]", "[info]"}
    \/ \E i \in 1..Len(l) : l[i].k = "Extracting"

\* [\d.]+\w+ at the start of a word: a size, or the front of a speed word.
SizeAt(l, j) == j <= Len(l) /\ l[j].k \in {"size", "speed"}

\* The progress regex tried at token i: <<matched, percent, speed, eta>>.
MatchAt(l, i) ==
    IF /\ i >= 1
       /\ i + 3 <= Len(l)
       /\ l[i].k = "[download]"
       /\ l[i + 1].k = "pct" /\ NumeralOK(l[i + 1].d)
       /\ l[i + 2].k = "of"
       /\ \/ l[i + 3].k = "tsize"
          \/ SizeAt(l, i + 3)
          \/ l[i + 3].k = "~" /\ SizeAt(l, i + 4)
    THEN LET s == IF l[i + 3].k = "~" THEN i + 4 ELSE i + 3   \* the size word
             hasAt == /\ l[s].k # "speed"
                      /\ s + 2 <= Len(l)
                      /\ l[s + 1].k = "at"
                      /\ l[s + 2].k = "speed"
             a == IF hasAt THEN s + 2 ELSE s                   \* last word matched
             hasEta == /\ l[s].k # "speed"
                       /\ a + 2 <= Len(l)
                       /\ l[a + 1].k = "ETA"
         IN  [ok |-> TRUE,
              pct |-> l[i + 1].d,
              speed |-> IF hasAt THEN Some(l[s + 2]) ELSE None,
              eta |-> IF hasEta THEN Some(l[a + 2]) ELSE None]
    ELSE [ok |-> FALSE, pct |-> <<>>, speed |-> None, eta |-> None]

\* Regex::captures: the leftmost match of the unanchored pattern.
Captures(l) ==
    LET hits == {i \in 1..Len(l) : MatchAt(l, i).ok}
    IN  IF hits = {} THEN MatchAt(l, 0)
        ELSE MatchAt(l, CHOOSE i \in hits : \A j \in hits : i <= j)

\* line.contains("[download] Destination:")
HasDestination(l) ==
    \E i \in 1..(Len(l) - 1) : l[i].k = "[download]" /\ l[i + 1].k = "Destination:"

\* line.replace("[download] Destination:", "").trim()
RECURSIVE StripDestination(_)
StripDestination(l) ==
    IF Len(l) = 0 THEN <<>>
    ELSE IF Len(l) >= 2 /\ l[1].k = "[download]" /\ l[2].k = "Destination:"
         THEN StripDestination(SubSeq(l, 3, Len(l)))
         ELSE <<l[1]>> \o StripDestination(Tail(l))

\* line.contains("[Merger]") || line.contains("[ExtractAudio]")
IsProcessing(l) == \E i \in 1..Len(l) : l[i].k \in {"[Merger]", "[ExtractAudio]"}

ClassifyFlipped(l) ==
    IF IsExtracting(l) THEN Some(Progress("extracting", Some(Tenths(0)), None, None, None))
    ELSE IF HasDestination(l)
         THEN Some(Progress("starting", Some(Tenths(0)), None, None, Some(StripDestination(l))))
    ELSE IF Captures(l).ok
         THEN Some(Progress("downloading", Some(ParseF64(Captures(l).pct)),
                            Captures(l).speed, Captures(l).eta, None))
    ELSE IF IsProcessing(l)
         THEN Some(Progress("processing", Some(Tenths(100)), None, None, None))
    ELSE None

\* The body of the read loop: the event, if any, that a line produces.
Classify(l) ==
    IF IsExtracting(l) THEN Some(Progress("extracting", Some(Tenths(0)), None, None, None))
    ELSE IF Captures(l).ok
         THEN Some(Progress("downloading", Some(ParseF64(Captures(l).pct)),
                            Captures(l).speed, Captures(l).eta, None))
    ELSE IF HasDestination(l)
         THEN Some(Progress("starting", Some(Tenths(0)), None, None, Some(StripDestination(l))))
    ELSE IF IsProcessing(l)
         THEN Some(Progress("processing", Some(Tenths(100)), None, None, None))
    ELSE None


(***************************************************************************)
(* Lines the classifier is exercised on: a prefix, a body and a suffix.    *)
(***************************************************************************)
Numerals ==
    {<<"0">>, <<"5", "0">>, <<"1", "2", ".", "5">>, <<"1", "0", "0">>,
     <<"1", "5", "0">>, <<"1", ".", "2", ".", "3">>}

SizeForms ==
    {<<Tok("size")>>, <<Tok("~"), Tok("size")>>, <<Tok("tsize")>>, <<Tok("speed")>>,
     <<Word("NA")>>}

AtForms == {<<>>, <<Tok("at"), Tok("speed")>>, <<Tok("at"), Word("Unknown")>>}

EtaForms == {<<>>, <<Tok("ETA"), Word("00:05")>>, <<Tok("ETA")>>}

ProgressBodies ==
    {<<Tok("[download]"), Pct(n), Tok("of")>> \o sz \o at \o eta :
        n \in Numerals, sz \in SizeForms, at \in AtForms, eta \in EtaForms}

OtherBodies ==
    {<<>>,
     <<Tok("[download]"), Tok("Destination:"), Word("a.mp4")>>,
     <<Tok("[download]"), Tok("Destination:")>>,
     <<Tok("[Merger]"), Word("x")>>,
     <<Tok("[ExtractAudio]")>>,
     <<Word("x")>>,
     <<Tok("[download]"), Word("x")>>}

Prefixes == {<<>>, <<Tok("[youtube]")>>, <<Tok("[info]")>>, <<Word("x")>>, <<Tok("[download]")>>}

Suffixes ==
    {<<>>, <<Tok("Extracting")>>, <<Tok("[Merger]")>>,
     <<Tok("[download]"), Tok("Destination:"), Word("b")>>,
     <<Tok("[download]"), Tok("Destination:"), Word("b"), Tok("[Merger]")>>}

Lines == {p \o b \o s : p \in Prefixes, b \in ProgressBodies \cup OtherBodies, s \in Suffixes}

(***************************************************************************)
(* Files.                                                                  *)
(***************************************************************************)
File(data, exec) == [exists |-> TRUE, data |-> data, exec |-> exec]
NoFile == [exists |-> FALSE, data |-> <<>>, exec |-> FALSE]

\* File contents are sequences of chunks: chunk 0 is the whole of the artifact
\* installed earlier, chunks 1..NChunks are the body of the artifact being served.
OldData == <<0>>
NewData == [k \in 1..NChunks |-> k]
OldBin == File(OldData, TRUE)

\* YtDlpManager::is_ytdlp_installed: the path exists, asked of the file system each time.
IsInstalledCached(f) == TRUE
IsInstalledStale(f) == FALSE
IsInstalled(f) == f.exists


(***************************************************************************)
(* Downloader::download.                                                   *)
(***************************************************************************)
Ok(v) == [kind |-> "Ok", v |-> v]
Err(e) == [kind |-> "Err", v |-> e]
Pending == [kind |-> "none", v |-> ""]

OutputDir == "/downloads"

NoChild ==
    [state |-> "none", script |-> <<>>, out |-> <<>>, err |-> 0, code |-> 0, pipe |-> <<>>,
     epipe |-> 0, image |-> <<>>]

(***************************************************************************)
(* The argument vector of a download.  An argument is a sequence of text   *)
(* pieces, so that joining and formatting are concatenations.              *)
(***************************************************************************)
Arg(s) == <<s>>

Video(quality, container) ==
    [kind |-> "Video", quality |-> quality, container |-> container, format |-> ""]
Audio(format) == [kind |-> "Audio", quality |-> "", container |-> "", format |-> format]

ToFormatStringSwapped(quality) ==
    CASE quality = "Best" -> <<"bv*", "+ba", "/b">>
      [] quality = "P720" -> <<"bv*", "[height<=480]", "+ba", "/b">>
      [] quality = "P480" -> <<"bv*", "[height<=720]", "+ba", "/b">>
\* VideoQuality::to_format_string
ToFormatString(quality) ==
    CASE quality = "Best" -> <<"bv*", "+ba", "/b">>
      [] quality = "P720" -> <<"bv*", "[height<=720]", "+ba", "/b">>
      [] quality = "P480" -> <<"bv*", "[height<=480]", "+ba", "/b">>

\* lines 285-289
ContainerName(container) ==
    CASE container = "Mp4" -> "mp4" [] container = "Mkv" -> "mkv" [] container = "Webm" -> "webm"

\* lines 294-300
AudioFormatName(format) ==
    CASE format = "Mp3" -> "mp3" [] format = "M4a" -> "m4a" [] format = "Aac" -> "aac"
      [] format = "Flac" -> "flac" [] format = "Wav" -> "wav"

\* lines 278-302: the arguments of the mode.
ModeArgs(mode) ==
    IF mode.kind = "Video"
    THEN <<Arg("-f"), ToFormatString(mode.quality),
           Arg("--merge-output-format"), Arg(ContainerName(mode.container))>>
    ELSE <<Arg("-x"), Arg("--audio-format"), Arg(AudioFormatName(mode.format))>>

\* usize::to_string
RECURSIVE UsizeToString(_)
UsizeToString(n) ==
    LET digit == <<"0", "1", "2", "3", "4", "5", "6", "7", "8", "9">>[(n % 10) + 1]
    IN  IF n < 10 THEN <<digit>> ELSE UsizeToString(n \div 10) \o <<digit>>

\* [String]::join
RECURSIVE Join(_, _)
Join(strs, sep) ==
    IF strs = <<>> THEN <<>>
    ELSE IF Len(strs) = 1 THEN strs[1]
    ELSE strs[1] \o <<sep>> \o Join(Tail(strs), sep)

\* lines 304-307
SubsArgs(embed_subs) == IF embed_subs THEN <<Arg("--write-subs"), Arg("--embed-subs")>> ELSE <<>>

\* lines 309-317
PlaylistItemsArgs(playlist_items) ==
    IF playlist_items = None THEN <<>>
    ELSE LET items == playlist_items[1]
             items_str == Join([k \in 1..Len(items) |-> UsizeToString(items[k])], ",")
         IN  <<Arg("--playlist-items"), items_str>>

FfmpegPath == "<bin_dir>/ffmpeg"

\* YtDlpManager::is_ffmpeg_installed
IsFfmpegInstalled == fs.ffmpeg

FfmpegArgsAlways(installed) == <<Arg("--ffmpeg-location"), Arg(FfmpegPath)>>
\* lines 320-323
FfmpegArgs(installed) ==
    IF installed THEN <<Arg("--ffmpeg-location"), Arg(FfmpegPath)>> ELSE <<>>

\* lines 263-267: output_path.join("%(title)s.%(ext)s")
OutputTemplate(output_dir) == <<output_dir, "/", "%(title)s.%(ext)s">>

\* lines 269-325
BuildArgs(d, ffmpeg) ==
    <<Arg("--progress"), Arg("--newline"), Arg("--force-progress"), Arg("-o"),
      OutputTemplate(d.output_dir)>>
    \o ModeArgs(d.mode)
    \o SubsArgs(d.embed_subs)
    \o PlaylistItemsArgs(d.playlist_items)
    \o FfmpegArgs(ffmpeg)
    \o <<Arg(d.url)>>

(***************************************************************************)
(* AppState of lib.rs: two tokio mutexes, each guarding an optional        *)
(* instance, and the "download-progress" channel of the application.       *)
(* A lock holds 0 when free, otherwise the id of the command holding it.   *)
(***************************************************************************)
AppState(downloader, updater) ==
    [downloader_lock |-> 0, updater_lock |-> 0,
     downloader |-> downloader, updater |-> updater, channel |-> <<>>]

\* lib.rs, DownloadProgressEvent: a progress record with the id of its download.
DownloadProgressEvent(id, p) ==
    [id |-> id, status |-> p.status, percentage |-> p.percentage, speed |-> p.speed,
     eta |-> p.eta, filename |-> p.filename]

NewEvents(old, new) == SubSeq(new, Len(old) + 1, Len(new))

OnProgressOneId(a, i, events) ==
    [a EXCEPT !.channel = @ \o [k \in 1..Len(events) |-> DownloadProgressEvent(1, events[k])]]
\* lib.rs, lines 224-236: the on_progress closure of download i emits each
\* record on the channel under the id of that download.
OnProgress(a, i, events) ==
    [a EXCEPT !.channel = @ \o [k \in 1..Len(events) |-> DownloadProgressEvent(i, events[k])]]

Url == "https://example.test/watch"

DlIdle ==
    [pc |-> "idle", url |-> Url, output_dir |-> OutputDir, mode |-> Video("Best", "Mp4"),
     embed_subs |-> FALSE, playlist_items |-> None, args |-> <<>>,
     events |-> <<>>, result |-> Pending,
     consumed |-> <<>>, loopEnd |-> "", created |-> FALSE, evAtSpawn |-> None,
     status |-> None, child |-> NoChild, errAt |-> ""]

\* A line that is not valid UTF-8: next_line() returns Err for it.
BadLine == <<Tok("<invalid utf-8>")>>
IsBadLine(l) == \E i \in 1..Len(l) : l[i].k = "<invalid utf-8>"

\* The lines a child may write.
ChildLines ==
    {<<Tok("[youtube]"), Word("x")>>,
     <<Tok("[download]"), Pct(<<"5", "0">>), Tok("of"), Tok("size"), Tok("at"), Tok("speed")>>,
     <<Tok("[download]"), Tok("Destination:")>>,
     <<Tok("[Merger]"), Word("x")>>,
     <<Word("x")>>,
     BadLine}

SeqsUpTo(S, n) == UNION {[1..m -> S] : m \in 0..n}
Scripts == SeqsUpTo(ChildLines, MaxLines)

\* The synthetic event of lines 328-336.
StartingEvent == Progress("starting", Some(Tenths(0)), None, None, None)
CompletedEvent == Progress("completed", Some(Tenths(100)), None, None, None)

\* download, lines 253-255: the precondition.
DlCheckInstalled(i) ==
    /\ dl[i].pc = "idle"
    /\ dl' = [dl EXCEPT ![i] =
                IF IsInstalled(fs.bin)
                THEN [@ EXCEPT !.pc = "mkdir"]
                ELSE [@ EXCEPT !.pc = "done", !.result = Err("BinaryNotFound")]]
    /\ UNCHANGED <<fs, inst, st, info, line, cls, app, cmd>>

\* download, lines 258-261: create the output directory when it is missing.
DlEnsureDir(i) ==
    /\ dl[i].pc = "mkdir"
    /\ \/ /\ fs.outdir
          /\ dl' = [dl EXCEPT ![i].pc = "start"]
          /\ fs' = fs
       \/ /\ ~fs.outdir
          /\ dl' = [dl EXCEPT ![i].pc = "start", ![i].created = TRUE]
          /\ fs' = [fs EXCEPT !.outdir = TRUE]
       \/ /\ ~fs.outdir                      \* create_dir_all fails
          /\ dl' = [dl EXCEPT ![i].pc = "done", ![i].result = Err("IoError"),
                              ![i].errAt = "mkdir"]
          /\ fs' = fs
    /\ UNCHANGED <<inst, st, info, line, cls, app, cmd>>

EmitStartingOmitted(events) == events
\* lines 328-336
EmitStarting(events) == Append(events, StartingEvent)

\* download, lines 263-336: build the arguments, then emit the synthetic event.
DlStart(i) ==
    /\ dl[i].pc = "start"
    /\ dl' = [dl EXCEPT ![i].pc = "spawn",
                         ![i].args = BuildArgs(dl[i], IsFfmpegInstalled),
                         ![i].events = EmitStarting(@)]
    /\ app' = OnProgress(app, i, NewEvents(dl[i].events, dl'[i].events))
    /\ UNCHANGED <<fs, inst, st, info, line, cls, cmd>>

\* download, lines 338-350: spawn the binary with both output streams piped.
DlSpawn(i, scripts, errs) ==
    /\ dl[i].pc = "spawn"
    /\ \/ /\ fs.bin.exists /\ fs.bin.exec
          /\ \E out \in scripts, err \in errs, code \in {0, 1} :
                dl' = [dl EXCEPT ![i].pc = "loop",
                                 ![i].evAtSpawn = Some(Len(dl[i].events)),
                                 ![i].child = [state |-> "running", script |-> out,
                                               out |-> out, err |-> err, code |-> code,
                                               pipe |-> <<>>, epipe |-> 0,
                                               image |-> fs.bin.data]]
       \/ dl' = [dl EXCEPT ![i].pc = "done",           \* spawn fails
                           ![i].evAtSpawn = Some(Len(dl[i].events)),
                           ![i].result = Err("IoError"), ![i].errAt = "spawn"]
    /\ UNCHANGED <<fs, inst, st, info, line, cls, app, cmd>>

ForwardDeduplicated(events, l) ==
    IF Classify(l) # None /\ events # <<>> /\ events[Len(events)] = Classify(l)[1]
    THEN events ELSE events \o Classify(l)
\* lines 357-407: one iteration of the loop body hands the line's event to on_progress.
Forward(events, l) == events \o Classify(l)

\* download, line 357: one lines.next_line().await and the loop body or the loop's end.
DlRead(i) ==
    /\ dl[i].pc = "loop"
    /\ LET c == dl[i].child IN
       \/ /\ c.pipe # <<>> /\ ~IsBadLine(Head(c.pipe))        \* Ok(Some(line))
          /\ dl' = [dl EXCEPT ![i].events = Forward(@, Head(c.pipe)),
                              ![i].consumed = Append(@, Head(c.pipe)),
                              ![i].child.pipe = Tail(@)]
       \/ /\ c.pipe # <<>> /\ IsBadLine(Head(c.pipe))         \* Err(_): the loop ends
          /\ dl' = [dl EXCEPT ![i].pc = "wait", ![i].loopEnd = "err", ![i].errAt = "read",
                              ![i].child.pipe = Tail(@)]
       \/ /\ c.pipe = <<>> /\ c.state = "exited"              \* Ok(None): end of stream
          /\ dl' = [dl EXCEPT ![i].pc = "wait", ![i].loopEnd = "eof"]
    /\ app' = OnProgress(app, i, NewEvents(dl[i].events, dl'[i].events))
    /\ UNCHANGED <<fs, inst, st, info, line, cls, cmd>>

ExitOutcomeAlwaysCompleted(d, code) ==
    [d EXCEPT !.pc = "done", !.status = Some(code),
              !.events = Append(@, CompletedEvent), !.result = Ok(d.output_dir)]
ExitOutcomeErrorEvent(d, code) ==
    IF code = 0
    THEN [d EXCEPT !.pc = "done", !.status = Some(code),
                   !.events = Append(@, CompletedEvent), !.result = Ok(d.output_dir)]
    ELSE [d EXCEPT !.pc = "done", !.status = Some(code),
                   !.events = Append(@, Progress("error", None, None, None, None)),
                   !.result = Err("DownloadFailed")]
\* lines 411-426: the exit status decides the last event and the result.
ExitOutcome(d, code) ==
    IF code = 0
    THEN [d EXCEPT !.pc = "done", !.status = Some(code),
                   !.events = Append(@, CompletedEvent), !.result = Ok(d.output_dir)]
    ELSE [d EXCEPT !.pc = "done", !.status = Some(code), !.result = Err("DownloadFailed")]

\* download, lines 409-426: child.wait().await?, then the outcome.
DlWait(i) ==
    /\ dl[i].pc = "wait"
    /\ dl[i].child.state = "exited"
    /\ \/ dl' = [dl EXCEPT ![i] = ExitOutcome(@, dl[i].child.code)]
       \/ dl' = [dl EXCEPT ![i].pc = "done", ![i].result = Err("IoError"),  \* wait fails
                           ![i].errAt = IF @ = "" THEN "wait" ELSE @]
    /\ app' = OnProgress(app, i, NewEvents(dl[i].events, dl'[i].events))
    /\ UNCHANGED <<fs, inst, st, info, line, cls, cmd>>

(***************************************************************************)
(* The child process: it writes its lines to stdout and its blocks to      *)
(* stderr, each write blocking while that pipe is full, and then exits.    *)
(* download reads stdout only in its loop and never reads stderr.          *)
(***************************************************************************)
ChildWriteOut(i) ==
    /\ dl[i].child.state = "running"
    /\ dl[i].child.out # <<>>
    /\ Len(dl[i].child.pipe) < PipeCap
    /\ dl' = [dl EXCEPT ![i].child.pipe = Append(@, Head(dl[i].child.out)),
                        ![i].child.out = Tail(@)]
    /\ UNCHANGED <<fs, inst, st, info, line, cls, app, cmd>>

ChildWriteErr(i) ==
    /\ dl[i].child.state = "running"
    /\ dl[i].child.err > 0
    /\ dl[i].child.epipe < PipeCap
    /\ dl' = [dl EXCEPT ![i].child.epipe = @ + 1, ![i].child.err = @ - 1]
    /\ UNCHANGED <<fs, inst, st, info, line, cls, app, cmd>>

ChildExit(i) ==
    /\ dl[i].child.state = "running"
    /\ dl[i].child.out = <<>>
    /\ dl[i].child.err = 0
    /\ dl' = [dl EXCEPT ![i].child.state = "exited"]
    /\ UNCHANGED <<fs, inst, st, info, line, cls, app, cmd>>

(***************************************************************************)
(* Spec: one download call on a fixed file system.                         *)
(***************************************************************************)
FsInit(bins, tmps) ==
    fs \in [bin : bins, tmp : tmps, ffmpeg : BOOLEAN, outdir : BOOLEAN]

Init ==
    /\ FsInit({NoFile, OldBin, File(NewData, FALSE)}, {NoFile})
    /\ dl = [i \in {1} |-> DlIdle]
    /\ inst = <<>>
    /\ st = <<>>
    /\ info = <<>>
    /\ line = <<>>
    /\ cls = <<>>
    /\ app = AppState(TRUE, TRUE)
    /\ cmd = <<>>

Next ==
    \/ \E i \in DOMAIN dl : DlCheckInstalled(i)
    \/ \E i \in DOMAIN dl : DlEnsureDir(i)
    \/ \E i \in DOMAIN dl : DlStart(i)
    \/ \E i \in DOMAIN dl : DlSpawn(i, Scripts, 0..MaxErr)
    \/ \E i \in DOMAIN dl : DlRead(i)
    \/ \E i \in DOMAIN dl : DlWait(i)
    \/ \E i \in DOMAIN dl : ChildWriteOut(i)
    \/ \E i \in DOMAIN dl : ChildWriteErr(i)
    \/ \E i \in DOMAIN dl : ChildExit(i)

Spec == Init /\ [][Next]_vars

\* The runtime keeps polling the task of a download that can take a step, and
\* the operating system keeps running a child that can take a step.
TaskRuns ==
    WF_vars(\E i \in DOMAIN dl :
               \/ DlCheckInstalled(i) \/ DlEnsureDir(i) \/ DlStart(i)
               \/ DlSpawn(i, Scripts, 0..MaxErr) \/ DlRead(i) \/ DlWait(i))
ChildRuns ==
    WF_vars(\E i \in DOMAIN dl : ChildWriteOut(i) \/ ChildWriteErr(i) \/ ChildExit(i))

SpecLive == Spec /\ TaskRuns /\ ChildRuns


(***************************************************************************)
(* Updater::download_ytdlp: the install.                                   *)
(***************************************************************************)
InstIdle ==
    [pc |-> "idle", total |-> None, downloaded |-> 0, k |-> 0, events |-> <<>>,
     result |-> Pending, pre |-> NoFile, streamEnded |-> FALSE, renamed |-> FALSE,
     errAt |-> ""]

\* chunk.len() of the k-th chunk of the body, and the declared Content-Length.
ChunkLen(k) == k
RECURSIVE SumLen(_)
SumLen(n) == IF n = 0 THEN 0 ELSE SumLen(n - 1) + ChunkLen(n)
ContentLength == SumLen(NChunks)

InstallEventZeroPercent(downloaded, total) ==
    [downloaded |-> downloaded, total |-> total,
     percentage |-> IF total = None THEN Some(0) ELSE Some((downloaded * 1000) \div total[1])]
\* lines 136-140: the event after a chunk; the percentage, in tenths, when the
\* total is known.
InstallEvent(downloaded, total) ==
    [downloaded |-> downloaded, total |-> total,
     percentage |-> IF total = None THEN None ELSE Some((downloaded * 1000) \div total[1])]

\* download_ytdlp, lines 113-126: resolve the paths and send the request.
InstSend(i) ==
    /\ inst[i].pc = "idle"
    /\ \/ \E total \in {None, Some(ContentLength)} :
             inst' = [inst EXCEPT ![i].pc = "create", ![i].pre = fs.bin, ![i].total = total]
       \/ inst' = [inst EXCEPT ![i].pc = "done", ![i].pre = fs.bin,
                               ![i].result = Err("RequestError"), ![i].errAt = "send"]
    /\ UNCHANGED <<fs, dl, st, info, line, cls, app, cmd>>

\* download_ytdlp, line 128: File::create(&temp_path) creates or truncates.
InstCreate(i) ==
    /\ inst[i].pc = "create"
    /\ \/ /\ inst' = [inst EXCEPT ![i].pc = "stream"]
          /\ fs' = [fs EXCEPT !.tmp = File(<<>>, FALSE)]
       \/ /\ inst' = [inst EXCEPT ![i].pc = "done", ![i].result = Err("IoError"),
                                  ![i].errAt = "create"]
          /\ fs' = fs
    /\ UNCHANGED <<dl, st, info, line, cls, app, cmd>>

ChunkTargetDest == "bin"
\* line 133: file is the handle of temp_path.
ChunkTarget == "tmp"

OnChunkErrorStop(r) == [r EXCEPT !.pc = "rename", !.streamEnded = TRUE]
\* line 132: chunk? returns the transport error.
OnChunkError(r) == [r EXCEPT !.pc = "done", !.result = Err("RequestError"), !.errAt = "chunk"]

\* download_ytdlp, lines 131-141: one stream.next().await and the loop body.
InstNext(i) ==
    /\ inst[i].pc = "stream"
    /\ LET r == inst[i] IN
       \/ /\ r.k < NChunks                                   \* Some(Ok(chunk)), written
          /\ fs' = [fs EXCEPT ![ChunkTarget] =
                       [@ EXCEPT !.exists = TRUE, !.data = Append(@, r.k + 1)]]
          /\ inst' = [inst EXCEPT ![i].k = r.k + 1,
                                  ![i].downloaded = r.downloaded + ChunkLen(r.k + 1),
                                  ![i].events = Append(@,
                                      InstallEvent(r.downloaded + ChunkLen(r.k + 1), r.total))]
       \/ /\ r.k < NChunks                                   \* Some(Ok(chunk)), write_all fails
          /\ inst' = [inst EXCEPT ![i].pc = "done", ![i].result = Err("IoError"),
                                  ![i].errAt = "write"]
          /\ fs' = fs
       \/ /\ r.k < NChunks                                   \* Some(Err(e))
          /\ inst' = [inst EXCEPT ![i] = OnChunkError(r)]
          /\ fs' = fs
       \/ /\ r.k = NChunks                                   \* None: the body is complete
          /\ inst' = [inst EXCEPT ![i].pc = "rename", ![i].streamEnded = TRUE]
          /\ fs' = fs
    /\ UNCHANGED <<dl, st, info, line, cls, app, cmd>>

RenameAsCopy(f) == [f EXCEPT !.bin = f.tmp]
\* std::fs::rename(&temp_path, &dest_path): the destination becomes the
\* temporary file, which is no longer at its old path.
Rename(f) == [f EXCEPT !.bin = f.tmp, !.tmp = NoFile]

\* download_ytdlp, lines 144-147: close the file and rename it onto the destination.
InstRename(i) ==
    /\ inst[i].pc = "rename"
    /\ \/ /\ fs.tmp.exists
          /\ fs' = Rename(fs)
          /\ inst' = [inst EXCEPT ![i].pc = "chmod", ![i].renamed = TRUE]
       \/ /\ fs' = fs                                        \* rename fails
          /\ inst' = [inst EXCEPT ![i].pc = "done", ![i].result = Err("IoError"),
                                  ![i].errAt = "rename"]
    /\ UNCHANGED <<dl, st, info, line, cls, app, cmd>>

\* download_ytdlp, lines 150-158: set the mode to 0o755 and return the path.
InstChmod(i) ==
    /\ inst[i].pc = "chmod"
    /\ \/ /\ fs.bin.exists
          /\ fs' = [fs EXCEPT !.bin.exec = TRUE]
          /\ inst' = [inst EXCEPT ![i].pc = "done", ![i].result = Ok("bin")]
       \/ /\ fs' = fs                                        \* metadata or set_permissions fails
          /\ inst' = [inst EXCEPT ![i].pc = "done", ![i].result = Err("IoError"),
                                  ![i].errAt = "chmod"]
    /\ UNCHANGED <<dl, st, info, line, cls, app, cmd>>

\* The install is interrupted: its task is dropped at an await, or the process dies.
InstAbort(i) ==
    /\ inst[i].pc \in {"create", "stream", "rename", "chmod"}
    /\ inst' = [inst EXCEPT ![i].pc = "aborted"]
    /\ UNCHANGED <<fs, dl, st, info, line, cls, app, cmd>>

(***************************************************************************)
(* Updater::check_update_status.                                           *)
(***************************************************************************)
StIdle ==
    [pc |-> "idle", installed |-> FALSE, current |-> None, latest |-> None,
     update_available |-> FALSE, result |-> Pending, execs |-> 0, vout |-> "", fout |-> ""]

\* Version strings are sequences of pieces; "\n" and " " are white space.
Versions == {<<"2023.12.30">>, <<"2024.01.01">>}
IsSpace(c) == c \in {"\n", " "}

RECURSIVE TrimStart(_)
TrimStart(s) == IF s # <<>> /\ IsSpace(Head(s)) THEN TrimStart(Tail(s)) ELSE s
RECURSIVE TrimEnd(_)
TrimEnd(s) == IF s # <<>> /\ IsSpace(s[Len(s)]) THEN TrimEnd(SubSeq(s, 1, Len(s) - 1)) ELSE s
Trim(s) == TrimEnd(TrimStart(s))

\* What `yt-dlp --version` may print.
VersionStdouts == {v \o <<"\n">> : v \in Versions} \cup Versions \cup {<<"\n">>}

\* YtDlpManager::get_ytdlp_version, lines 76-96, for an outcome of cmd.output().
GetYtdlpVersion(f, outcome, stdout) ==
    IF ~IsInstalled(f) THEN Err("BinaryNotFound")
    ELSE IF outcome = "spawn-error" THEN Err("IoError")
    ELSE IF outcome = "exit-zero" THEN Ok(Trim(stdout))
    ELSE Err("ExecutionError")

OkOrDefault(r) == IF r.kind = "Ok" THEN Some(r.v) ELSE Some(<<>>)
\* Result::ok of lines 87 and 92.
OkOption(r) == IF r.kind = "Ok" THEN Some(r.v) ELSE None

\* What the release feed request may give: the request fails, the body is not
\* JSON, a field is missing, or a release with a tag.
FeedOutcomes ==
    {[k |-> "request-error", tag |-> <<>>], [k |-> "not-json", tag |-> <<>>],
     [k |-> "no-tag", tag |-> <<>>]} \cup {[k |-> "release", tag |-> v] : v \in Versions}

\* Updater::get_latest_version, lines 57-81.
GetLatestVersion(o) ==
    IF o.k \in {"request-error", "not-json"} THEN Err("RequestError")
    ELSE IF o.k = "no-tag" THEN Err("ParseError")
    ELSE Ok(o.tag)

\* lines 95-99
UpdateAvailable(current, latest) ==
    IF current # None /\ latest # None THEN current[1] # latest[1]
    ELSE IF current = None /\ latest # None THEN TRUE
    ELSE FALSE

\* check_update_status, line 84.
StCheckInstalled(i) ==
    /\ st[i].pc = "idle"
    /\ st' = [st EXCEPT ![i].installed = IsInstalled(fs.bin),
                        ![i].pc = IF IsInstalled(fs.bin) THEN "version" ELSE "latest"]
    /\ UNCHANGED <<fs, dl, inst, info, line, cls, app, cmd>>

\* check_update_status, lines 86-90 when installed: run the binary with --version.
StVersion(i) ==
    /\ st[i].pc = "version"
    /\ \E outcome \in {"spawn-error", "exit-zero", "exit-nonzero"}, stdout \in VersionStdouts :
          /\ outcome # "spawn-error" => fs.bin.exists /\ fs.bin.exec
          /\ outcome # "exit-zero" => stdout = <<"\n">>
          /\ st' = [st EXCEPT ![i].pc = "latest",
                              ![i].vout = outcome,
                              ![i].execs = IF outcome = "spawn-error" THEN @ ELSE @ + 1,
                              ![i].current = OkOption(GetYtdlpVersion(fs.bin, outcome, stdout))]
    /\ UNCHANGED <<fs, dl, inst, info, line, cls, app, cmd>>

\* check_update_status, lines 92-106: ask the feed, derive the verdict, return.
StLatest(i) ==
    /\ st[i].pc = "latest"
    /\ \E o \in FeedOutcomes :
          LET latest == OkOption(GetLatestVersion(o)) IN
          st' = [st EXCEPT ![i].pc = "done",
                           ![i].fout = o.k,
                           ![i].latest = latest,
                           ![i].update_available = UpdateAvailable(st[i].current, latest),
                           ![i].result = Ok("UpdateStatus")]
    /\ UNCHANGED <<fs, dl, inst, info, line, cls, app, cmd>>

(***************************************************************************)
(* Downloader::get_video_info.                                             *)
(*                                                                         *)
(* A line of the child's standard output is what serde_json makes of it:   *)
(* not JSON at all (valid = FALSE), a JSON value that is not an object     *)
(* (obj = FALSE, every index gives Null) or an object, of which the model  *)
(* keeps the members the function reads.  A member is absent, a string, a  *)
(* number or null.                                                         *)
(***************************************************************************)
JAbsent == [t |-> "absent", s |-> "", n |-> 0]
JNull == [t |-> "null", s |-> "", n |-> 0]
JStr(s) == [t |-> "str", s |-> s, n |-> 0]
JNum(n) == [t |-> "num", s |-> "", n |-> n]

NoEntries == [t |-> "absent", items |-> <<>>]
JArray(items) == [t |-> "arr", items |-> items]
NotAnArray == [t |-> "other", items |-> <<>>]

JObject(type, id, title, rest, entries) ==
    [valid |-> TRUE, obj |-> TRUE, type |-> type, id |-> id, title |-> title,
     duration |-> rest[1], thumbnail |-> rest[2], description |-> rest[3],
     uploader |-> rest[4], entries |-> entries]
NoRest == <<JAbsent, JAbsent, JAbsent, JAbsent>>
FullRest == <<JNum(60), JStr("thumb"), JStr("descr"), JStr("upl")>>
JScalar == [JObject(JAbsent, JAbsent, JAbsent, NoRest, NoEntries) EXCEPT !.obj = FALSE]
NotJson == [JScalar EXCEPT !.valid = FALSE]

\* Value::as_str, Value::as_f64, Option::unwrap_or
AsStr(v) == IF v.t = "str" THEN Some(v.s) ELSE None
AsF64(v) == IF v.t = "num" THEN Some(v.n) ELSE None
UnwrapOr(o, d) == IF o = None THEN d ELSE o[1]

PlaylistEntry(id, title, duration, thumbnail) ==
    [id |-> id, title |-> title, duration |-> duration, thumbnail |-> thumbnail]

VideoInfo(id, title, rest, is_playlist, playlist_count, entries) ==
    [id |-> id, title |-> title, duration |-> rest[1], thumbnail |-> rest[2],
     description |-> rest[3], uploader |-> rest[4], is_playlist |-> is_playlist,
     playlist_count |-> playlist_count, entries |-> entries]

\* Lines 170-181: one entry for each line that parses, whatever it holds.
EntryOfLineStrict(v) ==
    IF v.valid /\ AsStr(v.id) # None
    THEN <<PlaylistEntry(v.id.s, UnwrapOr(AsStr(v.title), "Unknown"),
                         AsF64(v.duration), AsStr(v.thumbnail))>>
    ELSE <<>>
EntryOfLine(v) ==
    IF v.valid
    THEN <<PlaylistEntry(UnwrapOr(AsStr(v.id), ""), UnwrapOr(AsStr(v.title), "Unknown"),
                         AsF64(v.duration), AsStr(v.thumbnail))>>
    ELSE <<>>

RECURSIVE EntriesOfLines(_)
EntriesOfLines(ls) ==
    IF ls = <<>> THEN <<>> ELSE EntryOfLine(Head(ls)) \o EntriesOfLines(Tail(ls))

\* Lines 205-212 (the filter_map closure): an element whose id is not a string is dropped.
EmbeddedEntryLenient(e) ==
    <<PlaylistEntry(UnwrapOr(AsStr(e.id), ""), UnwrapOr(AsStr(e.title), "Unknown"),
                    AsF64(e.duration), AsStr(e.thumbnail))>>
EmbeddedEntry(e) ==
    IF AsStr(e.id) = None THEN <<>>
    ELSE <<PlaylistEntry(e.id.s, UnwrapOr(AsStr(e.title), "Unknown"),
                         AsF64(e.duration), AsStr(e.thumbnail))>>

RECURSIVE EmbeddedEntries(_)
EmbeddedEntries(items) ==
    IF items = <<>> THEN <<>> ELSE EmbeddedEntry(Head(items)) \o EmbeddedEntries(Tail(items))

InfoReturn(result, detail, video) == [result |-> result, detail |-> detail, video |-> video]

\* Lines 160-164: what the function returns for an output without lines.
NoOutputReturnDistinct == InfoReturn(Err("NoOutput"), "", None)
NoOutputReturn == InfoReturn(Err("ExecutionError"), "No output from yt-dlp", None)

\* Line 195, `serde_json::from_str(lines[0])?` on a line that is not JSON.
SingleLineErrorNoOutput == NoOutputReturn
SingleLineError == InfoReturn(Err("JsonError"), "", None)

\* Lines 151-243: the function's return value from the child's exit code,
\* the lines of its standard output and its standard error.
ReadOutput(code, stdout, stderr) ==
    IF code # 0 THEN InfoReturn(Err("ExecutionError"), stderr, None)
    ELSE IF Len(stdout) = 0 THEN NoOutputReturn
    ELSE IF Len(stdout) > 1
         THEN LET entries == EntriesOfLines(stdout)
              IN  InfoReturn(Ok("VideoInfo"), "",
                      Some(VideoInfo("playlist", "Playlist", <<None, None, None, None>>,
                                     TRUE, Some(Len(entries)), Some(entries))))
    ELSE IF ~stdout[1].valid THEN SingleLineError
    ELSE LET json == stdout[1]
         IN  IF AsStr(json.type) = Some("playlist")
             THEN LET entries == IF json.entries.t = "arr"
                                 THEN EmbeddedEntries(json.entries.items) ELSE <<>>
                  IN  InfoReturn(Ok("VideoInfo"), "",
                          Some(VideoInfo(UnwrapOr(AsStr(json.id), "playlist"),
                                         UnwrapOr(AsStr(json.title), "Playlist"),
                                         <<None, AsStr(json.thumbnail), None,
                                           AsStr(json.uploader)>>,
                                         TRUE, Some(Len(entries)), Some(entries))))
             ELSE InfoReturn(Ok("VideoInfo"), "",
                      Some(VideoInfo(UnwrapOr(AsStr(json.id), ""),
                                     UnwrapOr(AsStr(json.title), "Unknown"),
                                     <<AsF64(json.duration), AsStr(json.thumbnail),
                                       AsStr(json.description), AsStr(json.uploader)>>,
                                     FALSE, None, None)))

InfoIdle ==
    [pc |-> "idle", result |-> Pending, image |-> <<>>, detail |-> "", video |-> None,
     code |-> 0, stdout |-> <<>>, stderr |-> ""]

\* get_video_info, lines 133-135.
InfoCheckInstalled(i) ==
    /\ info[i].pc = "idle"
    /\ info' = [info EXCEPT ![i] =
                  IF IsInstalled(fs.bin)
                  THEN [@ EXCEPT !.pc = "run"]
                  ELSE [@ EXCEPT !.pc = "done", !.result = Err("BinaryNotFound")]]
    /\ UNCHANGED <<fs, dl, inst, st, line, cls, app, cmd>>

\* get_video_info, lines 137-243: run the binary to completion, then read its
\* output.  The child's exit code, output and error text are drawn from the
\* given sets; the spawn fails when the file cannot be executed.
InfoRun(i, outs, errs) ==
    /\ info[i].pc = "run"
    /\ \/ /\ fs.bin.exists /\ fs.bin.exec
          /\ \E code \in {0, 1}, stdout \in outs, stderr \in errs :
                LET r == ReadOutput(code, stdout, stderr)
                IN  info' = [info EXCEPT ![i].pc = "done", ![i].image = fs.bin.data,
                                         ![i].code = code, ![i].stdout = stdout,
                                         ![i].stderr = stderr,
                                         ![i].result = r.result, ![i].detail = r.detail,
                                         ![i].video = r.video]
       \/ info' = [info EXCEPT ![i].pc = "done", ![i].result = Err("IoError")]
    /\ UNCHANGED <<fs, dl, inst, st, line, cls, app, cmd>>

(***************************************************************************)
(* The commands of lib.rs.  A command is a record with its kind, its       *)
(* position, the index of the call it makes (which is also the download id *)
(* it generates) and its result.  A call record at "none" has not been     *)
(* made yet.                                                               *)
(***************************************************************************)
StartDownloadRequest(video_quality, video_container, audio_format, embed_subs, playlist_items) ==
    [url |-> Url, output_dir |-> OutputDir, video_quality |-> video_quality,
     video_container |-> video_container, audio_format |-> audio_format,
     embed_subs |-> embed_subs, playlist_items |-> playlist_items]

NoRequest == StartDownloadRequest(None, None, None, FALSE, None)

Command(kind, call, request) ==
    [kind |-> kind, pc |-> "idle", call |-> call, request |-> request, result |-> Pending,
     reported |-> FALSE, bg_downloader |-> "none", bg_updater |-> "none"]

DlNone == [DlIdle EXCEPT !.pc = "none"]
InfoNone == [InfoIdle EXCEPT !.pc = "none"]
InstNone == [InstIdle EXCEPT !.pc = "none"]

LockIgnored(l) == TRUE
\* tokio::sync::Mutex::lock().await completes only when the mutex is free.
LockFree(l) == l = 0

AudioModeIgnored(request) ==
    Video(IF request.video_quality = Some("720p") THEN "P720"
          ELSE IF request.video_quality = Some("480p") THEN "P480" ELSE "Best",
          IF request.video_container = Some("mkv") THEN "Mkv"
          ELSE IF request.video_container = Some("webm") THEN "Webm" ELSE "Mp4")
\* start_download, lines 181-205.
ModeOfRequest(request) ==
    IF request.audio_format # None
    THEN LET audio_fmt == request.audio_format[1]
         IN  Audio(CASE audio_fmt = "mp3" -> "Mp3"
                     [] audio_fmt = "m4a" -> "M4a"
                     [] audio_fmt = "aac" -> "Aac"
                     [] audio_fmt = "flac" -> "Flac"
                     [] audio_fmt = "wav" -> "Wav"
                     [] OTHER -> "Mp3")
    ELSE Video(IF request.video_quality = Some("720p") THEN "P720"
               ELSE IF request.video_quality = Some("480p") THEN "P480" ELSE "Best",
               IF request.video_container = Some("mkv") THEN "Mkv"
               ELSE IF request.video_container = Some("webm") THEN "Webm" ELSE "Mp4")

\* start_download, lines 207-213.
OptionsOfRequest(request) ==
    [DlIdle EXCEPT !.url = request.url, !.output_dir = request.output_dir,
                   !.mode = ModeOfRequest(request), !.embed_subs = request.embed_subs,
                   !.playlist_items = request.playlist_items]

\* start_download, line 175: wait for the downloader lock.
StartLock(c) ==
    /\ cmd[c].kind = "start_download" /\ cmd[c].pc = "idle"
    /\ LockFree(app.downloader_lock)
    /\ app' = [app EXCEPT !.downloader_lock = c]
    /\ cmd' = [cmd EXCEPT ![c].pc = "locked"]
    /\ UNCHANGED <<fs, dl, inst, st, info, line, cls>>

\* start_download, lines 176-252: without an instance return the error, the
\* guard being dropped; otherwise build the options, generate the id and spawn
\* the task that runs the download.
StartSpawn(c) ==
    /\ cmd[c].kind = "start_download" /\ cmd[c].pc = "locked"
    /\ IF app.downloader
       THEN /\ dl' = [dl EXCEPT ![cmd[c].call] = OptionsOfRequest(cmd[c].request)]
            /\ cmd' = [cmd EXCEPT ![c].pc = "spawned"]
            /\ app' = app
       ELSE /\ cmd' = [cmd EXCEPT ![c].pc = "done",
                                  ![c].result = Err("Downloader not initialized")]
            /\ app' = [app EXCEPT !.downloader_lock = 0]
            /\ dl' = dl
    /\ UNCHANGED <<fs, inst, st, info, line, cls>>

StartReturnAfterDownload(c) ==
    /\ cmd[c].kind = "start_download" /\ cmd[c].pc = "spawned"
    /\ dl[cmd[c].call].pc = "done"
    /\ app' = [app EXCEPT !.downloader_lock = 0]
    /\ cmd' = [cmd EXCEPT ![c].pc = "done", ![c].result = Ok(cmd[c].call)]
    /\ UNCHANGED <<fs, dl, inst, st, info, line, cls>>

\* start_download, lines 254-257: drop the guard and return the id.
StartReturn(c) ==
    /\ cmd[c].kind = "start_download" /\ cmd[c].pc = "spawned"
    /\ app' = [app EXCEPT !.downloader_lock = 0]
    /\ cmd' = [cmd EXCEPT ![c].pc = "done", ![c].result = Ok(cmd[c].call)]
    /\ UNCHANGED <<fs, dl, inst, st, info, line, cls>>

ErrorEvent(id, e) ==
    [id |-> id, status |-> "error", percentage |-> None, speed |-> None, eta |-> None,
     filename |-> Some(<<Word(e)>>)]

\* lines 239-251: an Err result becomes an `error` event of the download's id.
Report(a, id, result) ==
    IF result.kind = "Err" THEN [a EXCEPT !.channel = Append(@, ErrorEvent(id, result.v))]
    ELSE a

\* The spawned task, lines 222-252, once download has returned.
TaskReport(c) ==
    /\ cmd[c].kind = "start_download" /\ cmd[c].pc \in {"spawned", "done"}
    /\ ~cmd[c].reported
    /\ dl[cmd[c].call].pc = "done"
    /\ app' = Report(app, cmd[c].call, dl[cmd[c].call].result)
    /\ cmd' = [cmd EXCEPT ![c].reported = TRUE]
    /\ UNCHANGED <<fs, dl, inst, st, info, line, cls>>

\* download_ytdlp, line 117: wait for the updater lock.
InstallLock(c) ==
    /\ cmd[c].kind = "download_ytdlp" /\ cmd[c].pc = "idle"
    /\ LockFree(app.updater_lock)
    /\ app' = [app EXCEPT !.updater_lock = c]
    /\ cmd' = [cmd EXCEPT ![c].pc = "locked"]
    /\ UNCHANGED <<fs, dl, inst, st, info, line, cls>>

\* download_ytdlp, lines 118-129: without an instance return the error, the
\* guard being dropped; otherwise call the updater's install.
InstallCall(c) ==
    /\ cmd[c].kind = "download_ytdlp" /\ cmd[c].pc = "locked"
    /\ IF app.updater
       THEN /\ inst' = [inst EXCEPT ![cmd[c].call] = InstIdle]
            /\ cmd' = [cmd EXCEPT ![c].pc = "calling"]
            /\ app' = app
       ELSE /\ cmd' = [cmd EXCEPT ![c].pc = "done",
                                  ![c].result = Err("Updater not initialized")]
            /\ app' = [app EXCEPT !.updater_lock = 0]
            /\ inst' = inst
    /\ UNCHANGED <<fs, dl, st, info, line, cls>>

\* download_ytdlp, lines 129-133: an error of the install is returned, the
\* guard being dropped; after a success the guard is dropped explicitly.
InstallReturned(c) ==
    /\ cmd[c].kind = "download_ytdlp" /\ cmd[c].pc = "calling"
    /\ inst[cmd[c].call].pc = "done"
    /\ app' = [app EXCEPT !.updater_lock = 0]
    /\ cmd' = [cmd EXCEPT ![c] =
                 IF inst[cmd[c].call].result.kind = "Err"
                 THEN [@ EXCEPT !.pc = "done", !.result = inst[cmd[c].call].result]
                 ELSE [@ EXCEPT !.pc = "reinit"]]
    /\ UNCHANGED <<fs, dl, inst, st, info, line, cls>>

\* download_ytdlp, line 134: wait for the downloader lock.
ReinitLock(c) ==
    /\ cmd[c].kind = "download_ytdlp" /\ cmd[c].pc = "reinit"
    /\ LockFree(app.downloader_lock)
    /\ app' = [app EXCEPT !.downloader_lock = c]
    /\ cmd' = [cmd EXCEPT ![c].pc = "reinit_locked"]
    /\ UNCHANGED <<fs, dl, inst, st, info, line, cls>>

\* download_ytdlp, lines 135-139: replace the downloader when Downloader::new()
\* succeeds, return the path.
Reinit(c) ==
    /\ cmd[c].kind = "download_ytdlp" /\ cmd[c].pc = "reinit_locked"
    /\ \E created \in BOOLEAN :
          app' = [app EXCEPT !.downloader_lock = 0,
                             !.downloader = IF created THEN TRUE ELSE @]
    /\ cmd' = [cmd EXCEPT ![c].pc = "done", ![c].result = inst[cmd[c].call].result]
    /\ UNCHANGED <<fs, dl, inst, st, info, line, cls>>

\* get_video_info, line 144: wait for the downloader lock.
InfoLock(c) ==
    /\ cmd[c].kind = "get_video_info" /\ cmd[c].pc = "idle"
    /\ LockFree(app.downloader_lock)
    /\ app' = [app EXCEPT !.downloader_lock = c]
    /\ cmd' = [cmd EXCEPT ![c].pc = "locked"]
    /\ UNCHANGED <<fs, dl, inst, st, info, line, cls>>

\* get_video_info, lines 145-150: without an instance return the error, the
\* guard being dropped; otherwise make the query.
InfoCall(c) ==
    /\ cmd[c].kind = "get_video_info" /\ cmd[c].pc = "locked"
    /\ IF app.downloader
       THEN /\ info' = [info EXCEPT ![cmd[c].call] = InfoIdle]
            /\ cmd' = [cmd EXCEPT ![c].pc = "calling"]
            /\ app' = app
       ELSE /\ cmd' = [cmd EXCEPT ![c].pc = "done",
                                  ![c].result = Err("Downloader not initialized")]
            /\ app' = [app EXCEPT !.downloader_lock = 0]
            /\ info' = info
    /\ UNCHANGED <<fs, dl, inst, st, line, cls>>

\* get_video_info, lines 149-153: the query's result is returned and the guard
\* dropped.
InfoReturned(c) ==
    /\ cmd[c].kind = "get_video_info" /\ cmd[c].pc = "calling"
    /\ info[cmd[c].call].pc = "done"
    /\ app' = [app EXCEPT !.downloader_lock = 0]
    /\ cmd' = [cmd EXCEPT ![c].pc = "done", ![c].result = info[cmd[c].call].result]
    /\ UNCHANGED <<fs, dl, inst, st, info, line, cls>>

\* The holders of the locks taken by the two background tasks of command c.
BgDownloader(c) == 0 - 2 * c
BgUpdater(c) == 0 - 2 * c - 1

\* get_app_status, lines 57-94: read the two flags, spawn the background
\* tasks and return; YtDlpManager::new() may fail.
StatusCall(c) ==
    /\ cmd[c].kind = "get_app_status" /\ cmd[c].pc = "idle"
    /\ \/ cmd' = [cmd EXCEPT ![c].pc = "done", ![c].result = Err("NoAppDataDir")]
       \/ cmd' = [cmd EXCEPT ![c].pc = "done",
                             ![c].result = Ok(<<IsInstalled(fs.bin), IsFfmpegInstalled>>),
                             ![c].bg_downloader =
                                 IF IsInstalled(fs.bin) THEN "waiting" ELSE "none",
                             ![c].bg_updater = "waiting"]
    /\ UNCHANGED <<fs, dl, inst, st, info, line, cls, app>>

\* get_app_status, line 66: the background task waits for the downloader lock.
BgDownloaderLock(c) ==
    /\ cmd[c].bg_downloader = "waiting"
    /\ LockFree(app.downloader_lock)
    /\ app' = [app EXCEPT !.downloader_lock = BgDownloader(c)]
    /\ cmd' = [cmd EXCEPT ![c].bg_downloader = "locked"]
    /\ UNCHANGED <<fs, dl, inst, st, info, line, cls>>

\* get_app_status, lines 67-72: fill an empty slot when Downloader::new()
\* succeeds; the guard is dropped at the end of the task.
BgDownloaderInit(c) ==
    /\ cmd[c].bg_downloader = "locked"
    /\ \E created \in BOOLEAN :
          app' = [app EXCEPT !.downloader_lock = 0,
                             !.downloader = IF ~@ /\ created THEN TRUE ELSE @]
    /\ cmd' = [cmd EXCEPT ![c].bg_downloader = "done"]
    /\ UNCHANGED <<fs, dl, inst, st, info, line, cls>>

\* get_app_status, line 78: the background task waits for the updater lock.
BgUpdaterLock(c) ==
    /\ cmd[c].bg_updater = "waiting"
    /\ LockFree(app.updater_lock)
    /\ app' = [app EXCEPT !.updater_lock = BgUpdater(c)]
    /\ cmd' = [cmd EXCEPT ![c].bg_updater = "locked"]
    /\ UNCHANGED <<fs, dl, inst, st, info, line, cls>>

\* get_app_status, lines 79-84.
BgUpdaterInit(c) ==
    /\ cmd[c].bg_updater = "locked"
    /\ \E created \in BOOLEAN :
          app' = [app EXCEPT !.updater_lock = 0,
                             !.updater = IF ~@ /\ created THEN TRUE ELSE @]
    /\ cmd' = [cmd EXCEPT ![c].bg_updater = "done"]
    /\ UNCHANGED <<fs, dl, inst, st, info, line, cls>>

(***************************************************************************)
(* SpecInstall: an install running beside a download and a metadata query  *)
(* on the same files.                                                      *)
(***************************************************************************)
ProbeScripts == {<<>>, <<BadLine>>, <<<<Word("x")>>>>}
ProbeOutputs == {<<>>, <<JObject(JAbsent, JStr("v"), JStr("T"), FullRest, NoEntries)>>}

InitInstall ==
    /\ FsInit({NoFile, OldBin}, {NoFile, File(<<1>>, FALSE)})
    /\ fs.ffmpeg /\ fs.outdir
    /\ dl = [i \in {1} |-> DlIdle]
    /\ inst = [i \in {1} |-> InstIdle]
    /\ st = <<>>
    /\ info = [i \in {1} |-> InfoIdle]
    /\ line = <<>>
    /\ cls = <<>>
    /\ app = AppState(TRUE, TRUE)
    /\ cmd = <<>>

NextInstall ==
    \/ \E i \in DOMAIN inst : InstSend(i)
    \/ \E i \in DOMAIN inst : InstCreate(i)
    \/ \E i \in DOMAIN inst : InstNext(i)
    \/ \E i \in DOMAIN inst : InstRename(i)
    \/ \E i \in DOMAIN inst : InstChmod(i)
    \/ \E i \in DOMAIN inst : InstAbort(i)
    \/ \E i \in DOMAIN info : InfoCheckInstalled(i)
    \/ \E i \in DOMAIN info : InfoRun(i, ProbeOutputs, {""})
    \/ \E i \in DOMAIN dl : DlCheckInstalled(i)
    \/ \E i \in DOMAIN dl : DlEnsureDir(i)
    \/ \E i \in DOMAIN dl : DlStart(i)
    \/ \E i \in DOMAIN dl : DlSpawn(i, ProbeScripts, {0, 1})
    \/ \E i \in DOMAIN dl : DlRead(i)
    \/ \E i \in DOMAIN dl : DlWait(i)
    \/ \E i \in DOMAIN dl : ChildWriteOut(i)
    \/ \E i \in DOMAIN dl : ChildWriteErr(i)
    \/ \E i \in DOMAIN dl : ChildExit(i)

SpecInstall == InitInstall /\ [][NextInstall]_vars

(***************************************************************************)
(* SpecStatus: a status check running beside an install.                   *)
(***************************************************************************)
InitStatus ==
    /\ FsInit({NoFile, OldBin, File(NewData, FALSE)}, {NoFile})
    /\ fs.ffmpeg /\ fs.outdir
    /\ dl = <<>>
    /\ inst = [i \in {1} |-> InstIdle]
    /\ st = [i \in {1} |-> StIdle]
    /\ info = <<>>
    /\ line = <<>>
    /\ cls = <<>>
    /\ app = AppState(TRUE, TRUE)
    /\ cmd = <<>>

NextStatus ==
    \/ \E i \in DOMAIN st : StCheckInstalled(i)
    \/ \E i \in DOMAIN st : StVersion(i)
    \/ \E i \in DOMAIN st : StLatest(i)
    \/ \E i \in DOMAIN inst : InstSend(i)
    \/ \E i \in DOMAIN inst : InstCreate(i)
    \/ \E i \in DOMAIN inst : InstNext(i)
    \/ \E i \in DOMAIN inst : InstRename(i)
    \/ \E i \in DOMAIN inst : InstChmod(i)
    \/ \E i \in DOMAIN inst : InstAbort(i)

SpecStatus == InitStatus /\ [][NextStatus]_vars

(***************************************************************************)
(* SpecClassify: the loop body applied to one line.                        *)
(***************************************************************************)
InitClassify ==
    /\ FsInit({OldBin}, {NoFile})
    /\ fs.ffmpeg /\ fs.outdir
    /\ dl = <<>>
    /\ inst = <<>>
    /\ st = <<>>
    /\ info = <<>>
    /\ line \in Lines
    /\ cls = <<>>
    /\ app = AppState(TRUE, TRUE)
    /\ cmd = <<>>

DoClassify ==
    /\ cls = <<>>
    /\ cls' = <<Classify(line)>>
    /\ UNCHANGED <<fs, dl, inst, st, info, line, app, cmd>>

NextClassify == DoClassify

SpecClassify == InitClassify /\ [][NextClassify]_vars

(***************************************************************************)
(* SpecArgs: one download call for each request the command can make.      *)
(***************************************************************************)
Modes ==
    {Video(q, c) : q \in {"Best", "P720", "P480"}, c \in {"Mp4", "Mkv", "Webm"}}
    \cup {Audio(f) : f \in {"Mp3", "M4a", "Aac", "Flac", "Wav"}}

PlaylistSelections == {None, Some(<<>>), Some(<<1>>), Some(<<3, 1>>), Some(<<12, 2, 7>>)}

Requests ==
    {[DlIdle EXCEPT !.mode = m, !.embed_subs = e, !.playlist_items = p] :
        m \in Modes, e \in BOOLEAN, p \in PlaylistSelections}

InitArgs ==
    /\ FsInit({OldBin}, {NoFile})
    /\ dl \in [{1} -> Requests]
    /\ inst = <<>>
    /\ st = <<>>
    /\ info = <<>>
    /\ line = <<>>
    /\ cls = <<>>
    /\ app = AppState(TRUE, TRUE)
    /\ cmd = <<>>

NextArgs ==
    \/ \E i \in DOMAIN dl : DlCheckInstalled(i)
    \/ \E i \in DOMAIN dl : DlEnsureDir(i)
    \/ \E i \in DOMAIN dl : DlStart(i)
    \/ \E i \in DOMAIN dl : DlSpawn(i, {<<>>}, {0})
    \/ \E i \in DOMAIN dl : DlRead(i)
    \/ \E i \in DOMAIN dl : DlWait(i)
    \/ \E i \in DOMAIN dl : ChildExit(i)

SpecArgs == InitArgs /\ [][NextArgs]_vars

(***************************************************************************)
(* SpecObserve: a download, a metadata query and a status check, each      *)
(* through an instance that exists from the start, beside an install.      *)
(***************************************************************************)
InitObserve ==
    /\ FsInit({NoFile, OldBin}, {NoFile})
    /\ fs.ffmpeg /\ fs.outdir
    /\ dl = [i \in {1} |-> DlIdle]
    /\ inst = [i \in {1} |-> InstIdle]
    /\ st = [i \in {1} |-> StIdle]
    /\ info = [i \in {1} |-> InfoIdle]
    /\ line = <<>>
    /\ cls = <<>>
    /\ app = AppState(TRUE, TRUE)
    /\ cmd = <<>>

NextObserve ==
    \/ \E i \in DOMAIN inst : InstSend(i)
    \/ \E i \in DOMAIN inst : InstCreate(i)
    \/ \E i \in DOMAIN inst : InstNext(i)
    \/ \E i \in DOMAIN inst : InstRename(i)
    \/ \E i \in DOMAIN inst : InstChmod(i)
    \/ \E i \in DOMAIN st : StCheckInstalled(i)
    \/ \E i \in DOMAIN st : StVersion(i)
    \/ \E i \in DOMAIN st : StLatest(i)
    \/ \E i \in DOMAIN info : InfoCheckInstalled(i)
    \/ \E i \in DOMAIN info : InfoRun(i, {<<>>}, {""})
    \/ \E i \in DOMAIN dl : DlCheckInstalled(i)
    \/ \E i \in DOMAIN dl : DlEnsureDir(i)
    \/ \E i \in DOMAIN dl : DlStart(i)
    \/ \E i \in DOMAIN dl : DlSpawn(i, {<<>>}, {0})
    \/ \E i \in DOMAIN dl : DlRead(i)
    \/ \E i \in DOMAIN dl : DlWait(i)
    \/ \E i \in DOMAIN dl : ChildExit(i)

SpecObserve == InitObserve /\ [][NextObserve]_vars

(***************************************************************************)
(* SpecStart: one start_download command for each request the front end    *)
(* can send, recognised tags or not.                                       *)
(***************************************************************************)
RawRequests ==
    {StartDownloadRequest(q, c, a, FALSE, None) :
        q \in {None, Some("best"), Some("720p"), Some("480p"), Some("1080p")},
        c \in {None, Some("mp4"), Some("mkv"), Some("webm"), Some("avi")},
        a \in {None, Some("mp3"), Some("m4a"), Some("aac"), Some("flac"), Some("wav"),
               Some("ogg")}}

InitStart ==
    /\ FsInit({OldBin}, {NoFile})
    /\ fs.ffmpeg /\ fs.outdir
    /\ dl = [i \in {1} |-> DlNone]
    /\ inst = <<>>
    /\ st = <<>>
    /\ info = <<>>
    /\ line = <<>>
    /\ cls = <<>>
    /\ app \in {AppState(d, TRUE) : d \in BOOLEAN}
    /\ cmd \in {[c \in {1} |-> Command("start_download", 1, r)] : r \in RawRequests}

NextStart ==
    \/ \E c \in DOMAIN cmd : StartLock(c)
    \/ \E c \in DOMAIN cmd : StartSpawn(c)
    \/ \E c \in DOMAIN cmd : StartReturn(c)
    \/ \E c \in DOMAIN cmd : TaskReport(c)
    \/ \E i \in DOMAIN dl : DlCheckInstalled(i)
    \/ \E i \in DOMAIN dl : DlEnsureDir(i)
    \/ \E i \in DOMAIN dl : DlStart(i)
    \/ \E i \in DOMAIN dl : DlSpawn(i, {<<>>}, {0})
    \/ \E i \in DOMAIN dl : DlRead(i)
    \/ \E i \in DOMAIN dl : DlWait(i)
    \/ \E i \in DOMAIN dl : ChildExit(i)

SpecStart == InitStart /\ [][NextStart]_vars

(***************************************************************************)
(* SpecTwo: two start_download commands and the downloads they spawn.      *)
(***************************************************************************)
TwoScripts ==
    {<<<<Tok("[youtube]"), Word("x")>>>>,
     <<<<Tok("[download]"), Pct(<<"5", "0">>), Tok("of"), Tok("size")>>,
       <<Tok("[Merger]"), Word("x")>>>>}

InitTwo ==
    /\ FsInit({OldBin}, {NoFile})
    /\ fs.ffmpeg /\ fs.outdir
    /\ dl = [i \in {1, 2} |-> DlNone]
    /\ inst = <<>>
    /\ st = <<>>
    /\ info = <<>>
    /\ line = <<>>
    /\ cls = <<>>
    /\ app = AppState(TRUE, TRUE)
    /\ cmd = [c \in {1, 2} |-> Command("start_download", c, NoRequest)]

NextTwo ==
    \/ \E c \in DOMAIN cmd : StartLock(c)
    \/ \E c \in DOMAIN cmd : StartSpawn(c)
    \/ \E c \in DOMAIN cmd : StartReturn(c)
    \/ \E c \in DOMAIN cmd : TaskReport(c)
    \/ \E i \in DOMAIN dl : DlCheckInstalled(i)
    \/ \E i \in DOMAIN dl : DlEnsureDir(i)
    \/ \E i \in DOMAIN dl : DlStart(i)
    \/ \E i \in DOMAIN dl : DlSpawn(i, TwoScripts, {0})
    \/ \E i \in DOMAIN dl : DlRead(i)
    \/ \E i \in DOMAIN dl : DlWait(i)
    \/ \E i \in DOMAIN dl : ChildWriteOut(i)
    \/ \E i \in DOMAIN dl : ChildExit(i)

SpecTwo == InitTwo /\ [][NextTwo]_vars

(***************************************************************************)
(* SpecReport: one start_download command, the download it spawns, the     *)
(* child and the report of the spawned task, under fair scheduling.        *)
(***************************************************************************)
InitReport ==
    /\ FsInit({NoFile, OldBin}, {NoFile})
    /\ fs.ffmpeg
    /\ dl = [i \in {1} |-> DlNone]
    /\ inst = <<>>
    /\ st = <<>>
    /\ info = <<>>
    /\ line = <<>>
    /\ cls = <<>>
    /\ app = AppState(TRUE, TRUE)
    /\ cmd = [c \in {1} |-> Command("start_download", c, NoRequest)]

NextReport ==
    \/ \E c \in DOMAIN cmd : StartLock(c)
    \/ \E c \in DOMAIN cmd : StartSpawn(c)
    \/ \E c \in DOMAIN cmd : StartReturn(c)
    \/ \E c \in DOMAIN cmd : TaskReport(c)
    \/ \E i \in DOMAIN dl : DlCheckInstalled(i)
    \/ \E i \in DOMAIN dl : DlEnsureDir(i)
    \/ \E i \in DOMAIN dl : DlStart(i)
    \/ \E i \in DOMAIN dl : DlSpawn(i, ProbeScripts, 0..MaxErr)
    \/ \E i \in DOMAIN dl : DlRead(i)
    \/ \E i \in DOMAIN dl : DlWait(i)
    \/ \E i \in DOMAIN dl : ChildWriteOut(i)
    \/ \E i \in DOMAIN dl : ChildWriteErr(i)
    \/ \E i \in DOMAIN dl : ChildExit(i)

\* The runtime keeps polling a command, and the task it spawned, that can take
\* a step.
CommandRuns ==
    WF_vars(\E c \in DOMAIN cmd :
               StartLock(c) \/ StartSpawn(c) \/ StartReturn(c) \/ TaskReport(c))

SpecReport == InitReport /\ [][NextReport]_vars /\ CommandRuns /\ TaskRuns /\ ChildRuns

(***************************************************************************)
(* SpecInstalls: two download_ytdlp commands at once.                      *)
(***************************************************************************)
InitInstalls ==
    /\ FsInit({NoFile, OldBin}, {NoFile, File(<<1>>, FALSE)})
    /\ fs.ffmpeg /\ fs.outdir
    /\ dl = <<>>
    /\ inst = [i \in {1, 2} |-> InstNone]
    /\ st = <<>>
    /\ info = <<>>
    /\ line = <<>>
    /\ cls = <<>>
    /\ \E downloader \in BOOLEAN, updater \in BOOLEAN : app = AppState(downloader, updater)
    /\ cmd = [c \in {1, 2} |-> Command("download_ytdlp", c, NoRequest)]

NextInstalls ==
    \/ \E c \in DOMAIN cmd : InstallLock(c)
    \/ \E c \in DOMAIN cmd : InstallCall(c)
    \/ \E c \in DOMAIN cmd : InstallReturned(c)
    \/ \E c \in DOMAIN cmd : ReinitLock(c)
    \/ \E c \in DOMAIN cmd : Reinit(c)
    \/ \E i \in DOMAIN inst : InstSend(i)
    \/ \E i \in DOMAIN inst : InstCreate(i)
    \/ \E i \in DOMAIN inst : InstNext(i)
    \/ \E i \in DOMAIN inst : InstRename(i)
    \/ \E i \in DOMAIN inst : InstChmod(i)

SpecInstalls == InitInstalls /\ [][NextInstalls]_vars

(***************************************************************************)
(* SpecLocks: a start_download and two more commands that take locks, at   *)
(* once, for every choice of the two.  The commands, the query and the     *)
(* install are scheduled fairly; the downloads and their children may take *)
(* for ever.                                                               *)
(***************************************************************************)
LockCommands == {1, 2, 3}

\* The commands the front end invokes beside the first start_download.
CommandPairs ==
    {<<"start_download", "get_video_info">>,
     <<"start_download", "download_ytdlp">>, <<"start_download", "get_app_status">>,
     <<"get_video_info", "get_video_info">>, <<"get_video_info", "download_ytdlp">>,
     <<"get_video_info", "get_app_status">>, <<"download_ytdlp", "download_ytdlp">>,
     <<"download_ytdlp", "get_app_status">>, <<"get_app_status", "get_app_status">>}

InitLocks ==
    /\ FsInit({OldBin}, {NoFile})
    /\ fs.ffmpeg /\ fs.outdir
    /\ dl = [i \in LockCommands |-> DlNone]
    /\ inst = [i \in LockCommands |-> InstNone]
    /\ st = <<>>
    /\ info = [i \in LockCommands |-> InfoNone]
    /\ line = <<>>
    /\ cls = <<>>
    /\ \E downloader \in BOOLEAN : app = AppState(downloader, TRUE)
    /\ \E p \in CommandPairs :
          cmd = [c \in LockCommands |->
                   Command(IF c = 1 THEN "start_download" ELSE p[c - 1], c, NoRequest)]

\* A step of command c or of a task it spawned in the command layer.
CommandStep(c) ==
    \/ StartLock(c) \/ StartSpawn(c) \/ StartReturn(c) \/ TaskReport(c)
    \/ InfoLock(c) \/ InfoCall(c) \/ InfoReturned(c)
    \/ InstallLock(c) \/ InstallCall(c) \/ InstallReturned(c) \/ ReinitLock(c) \/ Reinit(c)
    \/ StatusCall(c) \/ BgDownloaderLock(c) \/ BgDownloaderInit(c)
    \/ BgUpdaterLock(c) \/ BgUpdaterInit(c)

\* A step of the query or of the install a command is waiting for.  The
\* install here either fails when the request is sent or goes through, with
\* no Content-Length.
CallStep ==
    \/ \E i \in DOMAIN info : InfoCheckInstalled(i)
    \/ \E i \in DOMAIN info : InfoRun(i, {<<>>}, {""})
    \/ \E i \in DOMAIN inst : InstSend(i) /\ inst'[i].total = None
    \/ \E i \in DOMAIN inst : InstCreate(i) /\ inst'[i].pc # "done"
    \/ \E i \in DOMAIN inst : InstNext(i) /\ inst'[i].pc # "done"
    \/ \E i \in DOMAIN inst : InstRename(i) /\ inst'[i].pc # "done"
    \/ \E i \in DOMAIN inst : InstChmod(i) /\ inst'[i].result.kind = "Ok"

NextLocks ==
    \/ \E c \in DOMAIN cmd : CommandStep(c)
    \/ CallStep
    \/ \E i \in DOMAIN dl : DlCheckInstalled(i)
    \/ \E i \in DOMAIN dl : DlEnsureDir(i)
    \/ \E i \in DOMAIN dl : DlStart(i)
    \/ \E i \in DOMAIN dl : DlSpawn(i, {<<>>}, {0, MaxErr})
    \/ \E i \in DOMAIN dl : DlRead(i)
    \/ \E i \in DOMAIN dl : DlWait(i)
    \/ \E i \in DOMAIN dl : ChildWriteErr(i)
    \/ \E i \in DOMAIN dl : ChildExit(i)

\* tokio's mutex hands the lock to a waiting task, and the runtime polls every
\* task that can go on.
LocksFair == (\A c \in LockCommands : WF_vars(CommandStep(c))) /\ WF_vars(CallStep)

SpecLocks == InitLocks /\ [][NextLocks]_vars /\ LocksFair

(***************************************************************************)
(* SpecInfo: metadata queries over the outputs a child can produce.        *)
(***************************************************************************)
MaxEntries == 2
MaxInfoLines == 3

\* Elements of an embedded `entries` array, and lines of a flat playlist.
EntryValues ==
    {JObject(JAbsent, JStr("a"), JStr("A"), FullRest, NoEntries),
     JObject(JAbsent, JStr("b"), JAbsent, NoRest, NoEntries),
     JObject(JAbsent, JAbsent, JStr("C"), NoRest, NoEntries),
     JObject(JAbsent, JNum(7), JNull, NoRest, NoEntries),
     JScalar}

EntryArrays == {JArray(items) : items \in SeqsUpTo(EntryValues, MaxEntries)}

\* Outputs of exactly one line.
SingleValues ==
    {JObject(type, id, title, rest, entries) :
        type \in {JAbsent, JStr("playlist"), JStr("video"), JNum(1)},
        id \in {JAbsent, JStr("v")},
        title \in {JAbsent, JStr("T")},
        rest \in {FullRest},
        entries \in EntryArrays \cup {NoEntries, NotAnArray}}
    \cup {JScalar, NotJson}

\* Lines of outputs of several lines.
LineValues ==
    {JObject(JAbsent, JStr("a"), JStr("A"), FullRest, NoEntries),
     JObject(JAbsent, JAbsent, JAbsent, NoRest, NoEntries),
     JObject(JStr("playlist"), JStr("p"), JStr("P"), NoRest,
             JArray(<<JObject(JAbsent, JStr("a"), JStr("A"), FullRest, NoEntries)>>)),
     JScalar,
     NotJson}

InfoOutputs ==
    {<<>>} \cup {<<v>> : v \in SingleValues}
           \cup (SeqsUpTo(LineValues, MaxInfoLines) \ SeqsUpTo(LineValues, 1))

InfoStderrs == {"", "ERROR: Unsupported URL"}

InitInfo ==
    /\ FsInit({NoFile, OldBin, File(NewData, FALSE)}, {NoFile})
    /\ fs.ffmpeg /\ fs.outdir
    /\ dl = <<>>
    /\ inst = <<>>
    /\ st = <<>>
    /\ info = [i \in {1} |-> InfoIdle]
    /\ line = <<>>
    /\ cls = <<>>
    /\ app = AppState(TRUE, TRUE)
    /\ cmd = <<>>

NextInfo ==
    \/ \E i \in DOMAIN info : InfoCheckInstalled(i)
    \/ \E i \in DOMAIN info : InfoRun(i, InfoOutputs, InfoStderrs)

SpecInfo == InitInfo /\ [][NextInfo]_vars

(***************************************************************************)
(* Properties of download (Spec).                                          *)
(***************************************************************************)
RECURSIVE LineEvents(_)
LineEvents(ls) == IF ls = <<>> THEN <<>> ELSE Classify(Head(ls)) \o LineEvents(Tail(ls))

Count(events, e) == Cardinality({k \in 1..Len(events) : events[k] = e})

\* The call got past the installed check and the output directory step.
PreconditionsPassed(d) ==
    \/ d.pc \in {"start", "spawn", "loop", "wait"}
    \/ d.pc = "done" /\ d.evAtSpawn # None

\* C1: a download call made while the binary file does not exist returns
\* BinaryNotFound, and in that call no child is spawned, no event is delivered
\* and the output directory is not created.
C1_NotInstalledFailsFirst ==
    \A i \in DOMAIN dl :
        (dl[i].pc # "idle" /\ ~fs.bin.exists) =>
            /\ dl[i].pc = "done"
            /\ dl[i].result = Err("BinaryNotFound")
            /\ dl[i].evAtSpawn = None /\ dl[i].child.state = "none"
            /\ dl[i].events = <<>>
            /\ ~dl[i].created

C1_Witness ==
    \E i \in DOMAIN dl : dl[i].pc = "done" /\ ~fs.bin.exists /\ ~fs.outdir

\* C2: in a call that passed its preconditions the first event is the synthetic
\* `starting` event (percentage 0, no filename); it has been delivered when the
\* spawn is attempted; it occurs exactly once, every other `starting` event
\* carrying a filename.
C2_SyntheticStartingFirst ==
    \A i \in DOMAIN dl :
        LET d == dl[i] IN
        /\ d.events # <<>> => d.events[1] = StartingEvent
        /\ (PreconditionsPassed(d) /\ d.pc # "start") =>
              /\ d.events # <<>>
              /\ Count(d.events, StartingEvent) = 1
              /\ \A k \in 2..Len(d.events) :
                    d.events[k].status = "starting" => d.events[k].filename # None
        /\ d.evAtSpawn \in {None, Some(1)}
        /\ d.child.state # "none" => d.evAtSpawn = Some(1)

C2_Witness ==
    \E i \in DOMAIN dl :
        /\ dl[i].pc = "done"
        /\ \E k \in 2..Len(dl[i].events) : dl[i].events[k].status = "starting"

\* C3: when the exit status obtained is zero, exactly one `completed` event
\* (percentage 100) is delivered, it is the last event and the call returns the
\* request's output directory; and a `completed` event is delivered only once
\* the read loop is over, the child has written all its output and exited, and
\* the status zero has been obtained.
C3_CompletedOnZeroExit ==
    \A i \in DOMAIN dl :
        LET d == dl[i] IN
        /\ d.status = Some(0) =>
              /\ d.pc = "done"
              /\ Count(d.events, CompletedEvent) = 1
              /\ d.events[Len(d.events)] = CompletedEvent
              /\ d.events[Len(d.events)].percentage = Some(Tenths(100))
              /\ d.result = Ok(OutputDir)
        /\ (\E k \in 1..Len(d.events) : d.events[k].status = "completed") =>
              /\ d.status = Some(0)
              /\ d.loopEnd # ""
              /\ d.child.state = "exited" /\ d.child.out = <<>>

C3_Witness ==
    \E i \in DOMAIN dl :
        /\ dl[i].status = Some(0)
        /\ Len(dl[i].consumed) >= 2
        /\ Len(dl[i].events) >= 3

\* C4: when the exit status obtained is not zero the call returns
\* DownloadFailed and the events are the synthetic one and those of the lines
\* read: no `completed` and no failure event follows them.
C4_NonZeroExitIsSilent ==
    \A i \in DOMAIN dl :
        LET d == dl[i] IN
        (d.status # None /\ d.status # Some(0)) =>
            /\ d.pc = "done"
            /\ d.result = Err("DownloadFailed")
            /\ d.events = <<StartingEvent>> \o LineEvents(d.consumed)
            /\ \A k \in 1..Len(d.events) : d.events[k].status \notin {"completed", "error"}

C4_Witness ==
    \E i \in DOMAIN dl :
        /\ dl[i].status = Some(1)
        /\ Len(dl[i].events) >= 2

\* The events between the synthetic one and the terminal outcome.
MiddleEvents(d) ==
    SubSeq(d.events, 2, IF d.status = Some(0) THEN Len(d.events) - 1 ELSE Len(d.events))

\* C5: at every moment the events after the synthetic one are the events of
\* the lines read so far, one per classified line and in line order; the lines
\* read are the lines the child wrote, in order, and all of them once the
\* loop has seen the end of the stream.
C5_EventsFollowLines ==
    \A i \in DOMAIN dl :
        LET d == dl[i] IN
        d.child.state # "none" =>
            /\ MiddleEvents(d) = LineEvents(d.consumed)
            /\ d.consumed = SubSeq(d.child.script, 1, Len(d.consumed))
            /\ d.loopEnd = "eof" => d.consumed = d.child.script

C5_Witness ==
    \E i \in DOMAIN dl :
        /\ dl[i].pc = "done" /\ dl[i].loopEnd = "eof"
        /\ Len(dl[i].consumed) >= 2
        /\ Len(MiddleEvents(dl[i])) >= 2
        /\ MiddleEvents(dl[i])[1] = MiddleEvents(dl[i])[2]


(***************************************************************************)
(* Properties of the install (SpecInstall).                                *)
(***************************************************************************)
\* C6: an install that failed or was interrupted before every chunk was written
\* to the temporary file leaves the destination as it was before the call; the
\* destination changes only by the rename, which happens only after the
\* response stream has ended without error with every chunk written.
C6_FailedInstallKeepsDestination ==
    \A i \in DOMAIN inst :
        LET r == inst[i] IN
        r.pc # "idle" =>
            /\ ((r.pc = "aborted" \/ r.result.kind = "Err") /\ r.k < NChunks) => fs.bin = r.pre
            /\ fs.bin # r.pre => r.renamed
            /\ r.renamed => r.streamEnded /\ r.k = NChunks /\ fs.bin.data = NewData
            /\ r.streamEnded => r.k = NChunks

C6_Witness ==
    \E i \in DOMAIN inst :
        /\ inst[i].result.kind = "Err"
        /\ inst[i].k >= 1 /\ inst[i].k < NChunks
        /\ inst[i].pre = OldBin
        /\ fs.tmp.exists /\ fs.tmp.data # <<>>

\* C7: at every moment of every interleaving the destination is absent, or is
\* the whole old artifact, or is the whole new artifact, and so is every image
\* a download or a metadata query executed; chunks go to the .tmp sibling.
C7_NoPartialBinary ==
    /\ fs.bin.exists => fs.bin.data \in {OldData, NewData}
    /\ ~fs.bin.exists => fs.bin = NoFile
    /\ \A i \in DOMAIN dl :
          dl[i].child.state # "none" => dl[i].child.image \in {OldData, NewData}
    /\ \A i \in DOMAIN info :
          info[i].image # <<>> => info[i].image \in {OldData, NewData}
    /\ \A i \in DOMAIN inst :
          inst[i].pc = "stream" => fs.tmp.data = SubSeq(NewData, 1, inst[i].k)

C7_Witness ==
    /\ \E i \in DOMAIN dl : dl[i].child.state # "none" /\ dl[i].child.image = NewData
    /\ \E i \in DOMAIN info : info[i].image = OldData

\* C18: the install's progress callback runs once for each chunk taken from
\* the stream and written to the temporary file, in chunk order; the k-th
\* event reports as downloaded the sum of the sizes of the first k chunks, as
\* total the declared content length, the same in every event, and a
\* percentage exactly when the total is present.
C18_InstallEventsFollowChunks ==
    \A i \in DOMAIN inst :
        LET r == inst[i] IN
        /\ Len(r.events) = r.k
        /\ r.pc = "stream" => fs.tmp.data = [j \in 1..Len(r.events) |-> j]
        /\ \A j \in 1..Len(r.events) :
              /\ r.events[j].downloaded = SumLen(j)
              /\ r.events[j].total = r.total
              /\ (r.events[j].percentage # None) <=> (r.total # None)
              /\ r.total # None =>
                    r.events[j].percentage = Some((SumLen(j) * 1000) \div r.total[1])

C18_Witness ==
    \E i \in DOMAIN inst :
        /\ inst[i].pc = "done" /\ inst[i].result.kind = "Ok"
        /\ inst[i].total = None
        /\ Len(inst[i].events) = NChunks
        /\ inst[i].events[NChunks].downloaded = ContentLength

\* An install returned an error that arose after the temporary file was created.
FailedAfterCreate(r) ==
    r.pc = "done" /\ r.result.kind = "Err" /\ r.errAt \in {"chunk", "write", "rename", "chmod"}

C20_ErrorLeavesBinaryAsBefore ==
    \A i \in DOMAIN inst :
        (inst[i].pc = "done" /\ inst[i].result.kind = "Err") =>
            /\ fs.bin = inst[i].pre
            /\ ~(inst[i].renamed /\ ~fs.bin.exec)

(***************************************************************************)
(* Properties of the status check (SpecStatus).                            *)
(***************************************************************************)
\* C8: update_available is true exactly when both versions are known and
\* differ, or the tool is not installed and a latest version is known; it is
\* false otherwise, also when the tool is installed and its version query failed.
C8_UpdateAvailableAsSpecified ==
    \A i \in DOMAIN st :
        LET s == st[i] IN
        s.pc = "done" =>
            (s.update_available <=>
                \/ s.current # None /\ s.latest # None /\ s.current # s.latest
                \/ ~s.installed /\ s.latest # None)

\* C9: check_update_status returns a status and never an error; a version query
\* that failed or exited non-zero gives current_version = None, a feed request
\* that failed or could not be parsed gives latest_version = None, and when the
\* binary is not installed it is not executed and current_version is None.
C9_StatusNeverFails ==
    \A i \in DOMAIN st :
        LET s == st[i] IN
        /\ s.result.kind # "Err"
        /\ s.pc = "done" => s.result = Ok("UpdateStatus")
        /\ s.vout \in {"spawn-error", "exit-nonzero"} => s.current = None
        /\ s.fout \in {"request-error", "not-json", "no-tag"} => s.latest = None
        /\ (s.pc # "idle" /\ ~s.installed) => s.execs = 0 /\ s.vout = "" /\ s.current = None

C9_Witness ==
    \E i \in DOMAIN st :
        /\ st[i].pc = "done"
        /\ st[i].installed /\ st[i].vout = "exit-nonzero" /\ st[i].execs = 1
        /\ st[i].fout = "no-tag"
        /\ fs.bin.data = NewData /\ fs.bin.exec

(***************************************************************************)
(* Properties of the line classifier (SpecClassify).                       *)
(***************************************************************************)
\* The value, in tenths, of the numerals the lines carry.
NumeralTenths(d) ==
    CASE d = <<"0">> -> 0
      [] d = <<"5", "0">> -> 500
      [] d = <<"1", "2", ".", "5">> -> 125
      [] d = <<"1", "0", "0">> -> 1000
      [] d = <<"1", "5", "0">> -> 1500

\* C10 as stated: every line that matches the progress pattern is classified
\* `downloading` with the matched numeral as a percentage in [0,100].
C10_EveryProgressLineInRange ==
    (cls # <<>> /\ Captures(line).ok) =>
        /\ cls[1] # None
        /\ cls[1][1].status = "downloading"
        /\ cls[1][1].percentage = Some(NumeralTenths(Captures(line).pct))
        /\ cls[1][1].percentage[1] \in 0..Tenths(100)

\* C10 as amended: a line that matches the progress pattern and is not an
\* extraction line is classified `downloading`, with or without the speed and
\* ETA groups, and its percentage is the value of the matched numeral: within
\* [0,100] exactly when the numeral is.
C10_ProgressLineIsDownloading ==
    (cls # <<>> /\ Captures(line).ok /\ ~IsExtracting(line)) =>
        /\ cls[1] # None
        /\ cls[1][1].status = "downloading"
        /\ cls[1][1].percentage = Some(NumeralTenths(Captures(line).pct))
        /\ cls[1][1].speed = Captures(line).speed
        /\ cls[1][1].eta = Captures(line).eta
        /\ cls[1][1].filename = None

C10_Witness ==
    /\ cls # <<>> /\ Captures(line).ok /\ ~IsExtracting(line)
    /\ HasDestination(line)
    /\ Captures(line).speed = None /\ Captures(line).eta # None
    /\ Captures(line).pct = <<"1", "2", ".", "5">>

\* The first rule of the loop body that a line satisfies, in the order the loop
\* tries them; 0 when it satisfies none.
FirstRule(l) ==
    IF IsExtracting(l) THEN 1
    ELSE IF Captures(l).ok THEN 2
    ELSE IF HasDestination(l) THEN 3
    ELSE IF IsProcessing(l) THEN 4
    ELSE 0

\* C11: classification is defined for every line and gives at most one event;
\* the rules are tried in the order extraction, progress, destination,
\* merging/extract-audio and the event is the one of the first rule the line
\* satisfies, whatever later rules it satisfies too; a line that satisfies no
\* rule gives no event.
C11_FirstMatchingRuleWins ==
    cls # <<>> =>
        /\ Len(cls[1]) <= 1
        /\ (FirstRule(line) = 0) <=> (cls[1] = None)
        /\ FirstRule(line) = 1 =>
              cls[1] = Some(Progress("extracting", Some(0), None, None, None))
        /\ FirstRule(line) = 2 =>
              cls[1][1].status = "downloading" /\ cls[1][1].filename = None
        /\ FirstRule(line) = 3 =>
              /\ cls[1][1].status = "starting"
              /\ cls[1][1].filename = Some(StripDestination(line))
              /\ cls[1][1].percentage = Some(0)
        /\ FirstRule(line) = 4 =>
              cls[1] = Some(Progress("processing", Some(1000), None, None, None))

\* A line that satisfies the progress, destination and merging rules at once.
C11_Witness ==
    /\ cls # <<>> /\ FirstRule(line) = 2
    /\ HasDestination(line) /\ IsProcessing(line)
    /\ cls[1] # None /\ cls[1][1].status = "downloading"

(***************************************************************************)
(* Properties of get_video_info (SpecInfo).                                *)
(***************************************************************************)
\* The query ran its child to completion and has returned.
Queried(r) == r.pc = "done" /\ r.image # <<>>

\* The position, among the members of S, of its member k.
Rank(S, k) == Cardinality({j \in S : j <= k})

\* C12: a query that exits zero with two or more output lines returns
\* is_playlist = true; its entries are the lines that parse as JSON, in line
\* order, the other lines being skipped without error; playlist_count is the
\* number of lines that parse and the length of entries.
C12_LinesBecomeEntries ==
    \A i \in DOMAIN info :
        (Queried(info[i]) /\ info[i].code = 0 /\ Len(info[i].stdout) >= 2) =>
            LET ls == info[i].stdout
                parsed == {k \in 1..Len(ls) : ls[k].valid}
            IN  /\ info[i].result = Ok("VideoInfo")
                /\ info[i].video # None
                /\ info[i].video[1].is_playlist
                /\ info[i].video[1].playlist_count = Some(Cardinality(parsed))
                /\ info[i].video[1].entries # None
                /\ Len(info[i].video[1].entries[1]) = Cardinality(parsed)
                /\ \A k \in parsed :
                      LET e == info[i].video[1].entries[1][Rank(parsed, k)]
                      IN  /\ e.id = UnwrapOr(AsStr(ls[k].id), "")
                          /\ e.title = UnwrapOr(AsStr(ls[k].title), "Unknown")
                          /\ e.duration = AsF64(ls[k].duration)
                          /\ e.thumbnail = AsStr(ls[k].thumbnail)

\* Three lines, the middle one malformed, the last one without an id.
C12_Witness ==
    \E i \in DOMAIN info :
        /\ Queried(info[i]) /\ info[i].code = 0 /\ Len(info[i].stdout) = 3
        /\ info[i].stdout[1].valid /\ ~info[i].stdout[2].valid
        /\ info[i].stdout[3].valid /\ info[i].stdout[3].id = JAbsent
        /\ info[i].video # None /\ info[i].video[1].playlist_count = Some(2)

\* C13: a query that exits zero with exactly one line, a JSON value: when its
\* `_type` is `playlist` the result has is_playlist = true, its entries are
\* the embedded entries that have an id, in source order, the others being
\* skipped, and playlist_count is the number of entries kept; otherwise the
\* result is a single item with is_playlist = false and neither playlist_count
\* nor entries.
C13_SingleLineResult ==
    \A i \in DOMAIN info :
        (/\ Queried(info[i]) /\ info[i].code = 0
         /\ Len(info[i].stdout) = 1 /\ info[i].stdout[1].valid) =>
            LET json == info[i].stdout[1]
                items == json.entries.items
                kept == {k \in 1..Len(items) : items[k].id.t = "str"}
            IN  /\ info[i].result = Ok("VideoInfo")
                /\ info[i].video # None
                /\ IF json.type = JStr("playlist")
                   THEN /\ info[i].video[1].is_playlist
                        /\ info[i].video[1].playlist_count = Some(Cardinality(kept))
                        /\ info[i].video[1].entries # None
                        /\ Len(info[i].video[1].entries[1]) = Cardinality(kept)
                        /\ \A k \in kept :
                              LET e == info[i].video[1].entries[1][Rank(kept, k)]
                              IN  /\ e.id = items[k].id.s
                                  /\ e.title = UnwrapOr(AsStr(items[k].title), "Unknown")
                                  /\ e.duration = AsF64(items[k].duration)
                                  /\ e.thumbnail = AsStr(items[k].thumbnail)
                   ELSE /\ ~info[i].video[1].is_playlist
                        /\ info[i].video[1].playlist_count = None
                        /\ info[i].video[1].entries = None

\* A playlist reference embedding an entry without an id before one with an id.
C13_Witness ==
    \E i \in DOMAIN info :
        /\ Queried(info[i]) /\ info[i].code = 0 /\ Len(info[i].stdout) = 1
        /\ info[i].stdout[1].type = JStr("playlist")
        /\ Len(info[i].stdout[1].entries.items) = 2
        /\ info[i].stdout[1].entries.items[1].id = JAbsent
        /\ info[i].stdout[1].entries.items[2].id = JStr("a")
        /\ info[i].video # None /\ info[i].video[1].playlist_count = Some(1)

\* C14 as stated: a VideoInfo is returned only after a zero exit with at
\* least one output line; a non-zero exit gives ExecutionError carrying the
\* child's stderr whatever was written to stdout; a zero exit without output
\* lines gives an error of its own kind, NoOutput.
C14_NoOutputIsDistinct ==
    \A i \in DOMAIN info :
        /\ info[i].result = Ok("VideoInfo") =>
              Queried(info[i]) /\ info[i].code = 0 /\ Len(info[i].stdout) >= 1
        /\ (Queried(info[i]) /\ info[i].code # 0) =>
              info[i].result = Err("ExecutionError") /\ info[i].detail = info[i].stderr
        /\ (Queried(info[i]) /\ info[i].code = 0 /\ Len(info[i].stdout) = 0) =>
              /\ info[i].result.kind = "Err"
              /\ info[i].result # Err("ExecutionError")

\* C14 as amended: a VideoInfo is returned only after a zero exit with at
\* least one output line; a non-zero exit gives ExecutionError carrying the
\* child's stderr whatever was written to stdout; a zero exit without output
\* lines gives the same kind of error, ExecutionError, carrying the fixed text
\* "No output from yt-dlp" in place of stderr.
C14_NoOutputIsExecutionError ==
    \A i \in DOMAIN info :
        /\ info[i].result = Ok("VideoInfo") =>
              Queried(info[i]) /\ info[i].code = 0 /\ Len(info[i].stdout) >= 1
        /\ (Queried(info[i]) /\ info[i].code # 0) =>
              info[i].result = Err("ExecutionError") /\ info[i].detail = info[i].stderr
        /\ (Queried(info[i]) /\ info[i].code = 0 /\ Len(info[i].stdout) = 0) =>
              /\ info[i].result = Err("ExecutionError")
              /\ info[i].detail = "No output from yt-dlp"
              /\ info[i].video = None

\* A zero exit without output, the child having written to stderr.
C14_Witness ==
    \E i \in DOMAIN info :
        /\ Queried(info[i]) /\ info[i].code = 0 /\ info[i].stdout = <<>>
        /\ info[i].stderr # ""
        /\ info[i].result.kind = "Err"

\* C15: a query that exits zero with exactly one output line, not valid JSON,
\* returns the JSON parse error: no VideoInfo, and not the error of an empty
\* output; the same line among two or more lines is skipped and the call
\* succeeds.
C15_SingleMalformedLineFails ==
    \A i \in DOMAIN info :
        (Queried(info[i]) /\ info[i].code = 0) =>
            /\ (Len(info[i].stdout) = 1 /\ info[i].stdout[1] = NotJson) =>
                  /\ info[i].result = Err("JsonError")
                  /\ info[i].video = None
                  /\ info[i].detail # "No output from yt-dlp"
            /\ (Len(info[i].stdout) >= 2
                  /\ \E k \in 1..Len(info[i].stdout) : info[i].stdout[k] = NotJson) =>
                  /\ info[i].result = Ok("VideoInfo")
                  /\ Len(info[i].video[1].entries[1]) =
                        Cardinality({k \in 1..Len(info[i].stdout) :
                                        info[i].stdout[k] # NotJson})

C15_Witness ==
    \E i \in DOMAIN info :
        /\ Queried(info[i]) /\ info[i].code = 0
        /\ info[i].stdout = <<NotJson>>
        /\ info[i].result = Err("JsonError")

(***************************************************************************)
(* Properties of the argument vector (SpecArgs).                           *)
(***************************************************************************)
\* The call has built its argument vector.
Built(d) == d.args # <<>>

Has(args, s) == \E k \in 1..Len(args) : args[k] = <<s>>

\* The argument that follows the flag s.
ValueOf(args, s) == args[(CHOOSE k \in 1..Len(args) : args[k] = <<s>>) + 1]

Contains(arg, piece) == \E k \in 1..Len(arg) : arg[k] = piece

\* C16: the arguments that follow the output template are those of the mode
\* and of nothing else.  Video mode gives `-f` with a selector of best video
\* plus best audio falling back to the best single file, the video limited to
\* a height of at most 720 or 480 for those qualities and unlimited for best,
\* then `--merge-output-format` with the container; audio mode gives `-x` and
\* `--audio-format` with the format, and neither `-f` nor
\* `--merge-output-format`.
C16_ModeArguments ==
    \A i \in DOMAIN dl :
        Built(dl[i]) =>
            LET args == dl[i].args
                mode == dl[i].mode
                lower == [Mp4 |-> "mp4", Mkv |-> "mkv", Webm |-> "webm", Mp3 |-> "mp3",
                          M4a |-> "m4a", Aac |-> "aac", Flac |-> "flac", Wav |-> "wav"]
            IN  IF mode.kind = "Video"
                THEN /\ args[6] = <<"-f">>
                     /\ args[7][1] = "bv*" /\ args[7][Len(args[7])] = "/b"
                     /\ Contains(args[7], "+ba")
                     /\ Contains(args[7], "[height<=720]") <=> (mode.quality = "P720")
                     /\ Contains(args[7], "[height<=480]") <=> (mode.quality = "P480")
                     /\ Len(args[7]) = IF mode.quality = "Best" THEN 3 ELSE 4
                     /\ args[8] = <<"--merge-output-format">>
                     /\ args[9] = <<lower[mode.container]>>
                     /\ ~Has(args, "-x") /\ ~Has(args, "--audio-format")
                ELSE /\ args[6] = <<"-x">>
                     /\ args[7] = <<"--audio-format">>
                     /\ args[8] = <<lower[mode.format]>>
                     /\ ~Has(args, "-f") /\ ~Has(args, "--merge-output-format")

C16_Witness ==
    \E i \in DOMAIN dl :
        /\ dl[i].pc = "done" /\ Built(dl[i])
        /\ dl[i].mode = Video("P720", "Mkv")
        /\ dl[i].embed_subs /\ dl[i].playlist_items # None

\* C17: in the argument vector, `--write-subs` and `--embed-subs` appear
\* exactly when embed_subs is set; `--playlist-items` appears exactly when the
\* request has a selection, followed by the requested indices in request
\* order separated by commas; `--ffmpeg-location` appears exactly when the
\* ffmpeg file exists as the vector is built, followed by its path; the last
\* argument is the URL.
C17_OptionalArguments ==
    \A i \in DOMAIN dl :
        Built(dl[i]) =>
            LET args == dl[i].args
                sel == dl[i].playlist_items
            IN  /\ Has(args, "--write-subs") <=> dl[i].embed_subs
                /\ Has(args, "--embed-subs") <=> dl[i].embed_subs
                /\ Has(args, "--playlist-items") <=> (sel # None)
                /\ sel # None =>
                      ValueOf(args, "--playlist-items") =
                          CASE sel[1] = <<>> -> <<>>
                            [] sel[1] = <<1>> -> <<"1">>
                            [] sel[1] = <<3, 1>> -> <<"3", ",", "1">>
                            [] sel[1] = <<12, 2, 7>> -> <<"1", "2", ",", "2", ",", "7">>
                /\ Has(args, "--ffmpeg-location") <=> fs.ffmpeg
                /\ fs.ffmpeg => ValueOf(args, "--ffmpeg-location") = <<FfmpegPath>>
                /\ args[Len(args)] = <<dl[i].url>>
                /\ Cardinality({k \in 1..Len(args) : args[k] = <<dl[i].url>>}) = 1

C17_Witness ==
    \E i \in DOMAIN dl :
        /\ dl[i].pc = "done" /\ Built(dl[i])
        /\ dl[i].embed_subs /\ dl[i].playlist_items = Some(<<12, 2, 7>>)
        /\ ~fs.ffmpeg
        /\ dl[i].mode = Audio("Flac")

(***************************************************************************)
(* Error propagation in download, install and the metadata query           *)
(* (SpecInstall).                                                          *)
(***************************************************************************)
\* C21: in the metadata query, download and install the first step that fails
\* decides the result: the call has returned an error and none of the later
\* steps was performed.  For download the steps are the creation of the output
\* directory, the spawn, the read of a line of the child's output and the wait
\* for its exit status; for install the request, the creation of the temporary
\* file, each chunk read and write, the rename and the permission change.
C21_FirstFailureDecides ==
    /\ \A i \in DOMAIN dl :
          LET d == dl[i] IN
          d.errAt # "" =>
              /\ d.pc = "done" /\ d.result.kind = "Err"
              /\ d.status = None
              /\ \A k \in 1..Len(d.events) : d.events[k].status # "completed"
              /\ d.errAt = "mkdir" => d.events = <<>> /\ d.child.state = "none" /\ ~d.created
              /\ d.errAt = "spawn" => d.child.state = "none" /\ d.consumed = <<>>
    /\ \A i \in DOMAIN inst :
          LET r == inst[i] IN
          r.errAt # "" =>
              /\ r.pc = "done" /\ r.result.kind = "Err"
              /\ r.errAt \in {"send", "create"} => r.k = 0 /\ r.events = <<>>
              /\ r.errAt \in {"send", "create", "chunk", "write", "rename"} =>
                    ~r.renamed /\ fs.bin = r.pre
              /\ r.errAt \in {"chunk", "write"} => ~r.streamEnded
    /\ \A i \in DOMAIN info :
          info[i].result.kind = "Err" => info[i].pc = "done" /\ info[i].video = None

(***************************************************************************)
(* Properties of the installed check (SpecObserve).                        *)
(***************************************************************************)
\* Some install has returned success.
InstallSucceeded == \E j \in DOMAIN inst : inst[j].pc = "done" /\ inst[j].result.kind = "Ok"

\* C22: the precondition check of every download and metadata query, and the
\* installed flag of every status check, is the existence of the binary file
\* at the moment of that step; once an install has returned success every
\* later check finds the binary installed, the instances that make the calls
\* having been created before the install.
C22_InstalledNeverCached ==
    [][/\ \A i \in DOMAIN dl :
              (dl[i].pc = "idle" /\ dl'[i].pc # "idle") =>
                  /\ (dl'[i].pc = "mkdir") <=> fs.bin.exists
                  /\ (dl'[i].result = Err("BinaryNotFound")) <=> ~fs.bin.exists
                  /\ InstallSucceeded => dl'[i].pc = "mkdir"
       /\ \A i \in DOMAIN info :
              (info[i].pc = "idle" /\ info'[i].pc # "idle") =>
                  /\ (info'[i].pc = "run") <=> fs.bin.exists
                  /\ (info'[i].result = Err("BinaryNotFound")) <=> ~fs.bin.exists
                  /\ InstallSucceeded => info'[i].pc = "run"
       /\ \A i \in DOMAIN st :
              (st[i].pc = "idle" /\ st'[i].pc # "idle") =>
                  /\ st'[i].installed <=> fs.bin.exists
                  /\ InstallSucceeded => st'[i].installed
      ]_vars

\* The binary was absent when the install began; the download, the query and
\* the status check all found it installed and ran the new binary.
C22_Witness ==
    /\ \E j \in DOMAIN inst :
          inst[j].pc = "done" /\ inst[j].result.kind = "Ok" /\ inst[j].pre = NoFile
    /\ \E i \in DOMAIN dl : dl[i].pc = "done" /\ dl[i].child.image = NewData
    /\ \E i \in DOMAIN info : info[i].pc = "done" /\ info[i].image = NewData
    /\ \E i \in DOMAIN st : st[i].pc = "done" /\ st[i].installed /\ st[i].execs = 1

(***************************************************************************)
(* Properties of start_download (SpecStart).                               *)
(***************************************************************************)
\* C24: start_download never fails on an unrecognised tag.  With audio_format
\* present the mode is audio whatever the video options are, an unrecognised
\* format giving mp3; otherwise the mode is video, a missing or unrecognised
\* quality giving best and a missing or unrecognised container giving mp4.
C24_RequestToMode ==
    \A c \in DOMAIN cmd :
        (cmd[c].kind = "start_download" /\ cmd[c].pc \in {"spawned", "done"}
            /\ app.downloader) =>
            LET r == cmd[c].request
                mode == dl[cmd[c].call].mode
                audio == [mp3 |-> "Mp3", m4a |-> "M4a", aac |-> "Aac", flac |-> "Flac",
                          wav |-> "Wav"]
                quality == [720p |-> "P720", 480p |-> "P480"]
                container == [mkv |-> "Mkv", webm |-> "Webm"]
            IN  /\ cmd[c].result.kind # "Err"
                /\ dl[cmd[c].call].pc # "none"
                /\ IF r.audio_format # None
                   THEN mode = Audio(IF r.audio_format[1] \in DOMAIN audio
                                     THEN audio[r.audio_format[1]] ELSE "Mp3")
                   ELSE mode = Video(IF r.video_quality # None
                                          /\ r.video_quality[1] \in DOMAIN quality
                                     THEN quality[r.video_quality[1]] ELSE "Best",
                                     IF r.video_container # None
                                          /\ r.video_container[1] \in DOMAIN container
                                     THEN container[r.video_container[1]] ELSE "Mp4")

\* An unrecognised audio format beside video options: the download ran as mp3.
C24_Witness ==
    \E c \in DOMAIN cmd :
        /\ cmd[c].pc = "done" /\ cmd[c].result.kind = "Ok"
        /\ cmd[c].request.audio_format = Some("ogg")
        /\ cmd[c].request.video_quality = Some("720p")
        /\ dl[cmd[c].call].pc = "done"
        /\ Has(dl[cmd[c].call].args, "--audio-format")
        /\ ValueOf(dl[cmd[c].call].args, "--audio-format") = <<"mp3">>

(***************************************************************************)
(* Properties of concurrent downloads (SpecTwo).                           *)
(***************************************************************************)
\* The events of the channel that carry the id, in channel order.
RECURSIVE OfId(_, _)
OfId(channel, id) ==
    IF channel = <<>> THEN <<>>
    ELSE (IF Head(channel).id = id THEN <<Head(channel)>> ELSE <<>>) \o OfId(Tail(channel), id)

\* C23: two downloads started through start_download have different ids and
\* each its own child.  Every event of the channel carries the id of the
\* download whose child produced the line; the events of one id are, in
\* order, the synthetic event and the events of the lines read from that
\* download's child, then its terminal event, however the two ids interleave;
\* the exit status or failure of one download changes neither the events nor
\* the result of the other.
C23_DownloadsAreIndependent ==
    /\ \A c1, c2 \in DOMAIN cmd :
          (c1 # c2 /\ cmd[c1].result.kind = "Ok" /\ cmd[c2].result.kind = "Ok") =>
              cmd[c1].result.v # cmd[c2].result.v
    /\ \A k \in 1..Len(app.channel) :
          \E c \in DOMAIN cmd : cmd[c].pc # "idle" /\ cmd[c].call = app.channel[k].id
    /\ \A c \in DOMAIN cmd :
          LET i == cmd[c].call
              d == dl[i]
              mine == OfId(app.channel, i)
              lineEvents == LineEvents(d.consumed)
              terminal == IF d.pc = "done" /\ d.status = Some(0) THEN <<"completed">>
                          ELSE IF cmd[c].reported THEN <<"error">> ELSE <<>>
          IN  /\ d.pc \in {"none", "idle", "mkdir", "start"} => mine = <<>>
              /\ d.pc \in {"spawn", "loop", "wait"} \/ (d.pc = "done" /\ d.evAtSpawn # None) =>
                    /\ Len(mine) = 1 + Len(lineEvents) + Len(terminal)
                    /\ mine[1] = DownloadProgressEvent(i, StartingEvent)
                    /\ \A k \in 1..Len(lineEvents) :
                          mine[1 + k] = DownloadProgressEvent(i, lineEvents[k])
                    /\ terminal # <<>> => mine[Len(mine)].status = terminal[1]
              /\ d.pc = "done" /\ d.status # None =>
                    /\ d.status = Some(d.child.code)
                    /\ d.result = IF d.child.code = 0 THEN Ok(d.output_dir)
                                  ELSE Err("DownloadFailed")
              /\ d.child.state # "none" => d.consumed \o d.child.pipe \o d.child.out = d.child.script

\* Download 1 failed and download 2 completed, their events interleaved on
\* the channel.
C23_Witness ==
    /\ dl[1].pc = "done" /\ dl[1].status = Some(1) /\ cmd[1].reported
    /\ dl[2].pc = "done" /\ dl[2].status = Some(0)
    /\ Len(dl[2].consumed) = 2
    /\ \E k, l, m \in 1..Len(app.channel) :
          /\ k < l /\ l < m
          /\ app.channel[k].id = 2 /\ app.channel[l].id = 1 /\ app.channel[m].id = 2
          /\ app.channel[l].status = "error"
          /\ app.channel[m].status = "completed"

(***************************************************************************)
(* Termination of download (SpecLive).                                     *)
(***************************************************************************)
\* C26: a download call, whose child writes finitely many lines and exits
\* when its output is consumed, eventually returns, whatever the child writes
\* to its error stream and whether or not a read error ended the line loop.
C26_DownloadReturns == <>(\A i \in DOMAIN dl : dl[i].pc = "done")

(***************************************************************************)
(* Terminal events of a download started through the command (SpecReport). *)
(***************************************************************************)
IsTerminal(e) == e.status \in {"completed", "error"}

\* The command returned an id.
Accepted(c) == cmd[c].kind = "start_download" /\ cmd[c].result.kind = "Ok"

HasTerminal(c) ==
    \E k \in 1..Len(app.channel) :
        app.channel[k].id = cmd[c].call /\ IsTerminal(app.channel[k])

\* At most one terminal event per id, nothing of the id after it; the events of
\* a download that found no binary, and of one whose spawn failed.
TerminalEventIsLast ==
    \A c \in DOMAIN cmd :
        LET es == OfId(app.channel, cmd[c].call)
            d == dl[cmd[c].call]
        IN  /\ \A k \in 1..Len(es) : IsTerminal(es[k]) => k = Len(es)
            /\ cmd[c].reported /\ d.result = Err("BinaryNotFound") =>
                  Len(es) = 1 /\ es[1].status = "error"
            /\ cmd[c].reported /\ d.errAt = "spawn" =>
                  /\ Len(es) = 2
                  /\ es[1] = DownloadProgressEvent(cmd[c].call, StartingEvent)
                  /\ es[2].status = "error"

\* C25: every download for which start_download returned an id gets exactly
\* one terminal event of that id on the channel, `completed` or `error`, and
\* no event of the id follows it.
C25_ExactlyOneTerminalEvent ==
    /\ []TerminalEventIsLast
    /\ <>[](\A c \in DOMAIN cmd : Accepted(c) => HasTerminal(c))

(***************************************************************************)
(* Installs through the command (SpecInstalls).                            *)
(***************************************************************************)
\* The install has created the temporary file and not yet renamed it.
Installing(i) == inst[i].pc \in {"stream", "rename"}

\* C27: of the installs made by download_ytdlp commands at most one is
\* between creating the temporary file and renaming it; while one is, the
\* temporary file holds the chunks that install has written and nothing else,
\* and a file promoted by a rename holds the chunks of one complete response.
C27_InstallsAreExclusive ==
    /\ \A i, j \in DOMAIN inst : Installing(i) /\ Installing(j) => i = j
    /\ \A i \in DOMAIN inst :
          /\ Installing(i) =>
                /\ app.updater_lock = i
                /\ fs.tmp = File(SubSeq(NewData, 1, inst[i].k), FALSE)
          /\ inst[i].renamed /\ inst[i].pc = "chmod" =>
                fs.bin = File(NewData, FALSE) /\ inst[i].k = NChunks
    /\ (\E i \in DOMAIN inst : inst[i].renamed) => fs.bin.data = NewData

C27_Witness ==
    /\ inst[1].renamed /\ inst[1].pc = "done"
    /\ inst[2].pc = "stream" /\ inst[2].k = 1
    /\ fs.bin = File(NewData, TRUE)
    /\ fs.tmp = File(<<1>>, FALSE)

(***************************************************************************)
(* The two locks (SpecLocks).                                              *)
(***************************************************************************)
\* The command has returned and the background tasks it spawned have ended.
Completed(c) ==
    /\ cmd[c].pc = "done"
    /\ cmd[c].bg_downloader \in {"none", "done"}
    /\ cmd[c].bg_updater \in {"none", "done"}

\* The download the command started is running.
InFlight(c) ==
    /\ cmd[c].kind = "start_download" /\ cmd[c].pc = "done"
    /\ dl[cmd[c].call].pc \notin {"none", "done"}

\* The tasks that wait for the updater lock.
WaitsForUpdater ==
    {c \in DOMAIN cmd : cmd[c].kind = "download_ytdlp" /\ cmd[c].pc = "idle"}
    \cup {BgUpdater(c) : c \in {d \in DOMAIN cmd : cmd[d].bg_updater = "waiting"}}

\* A returned command, and so a download in flight, holds no lock, and the
\* holder of the downloader lock does not wait for the updater lock.
LocksNotHeldAcross ==
    /\ \A c \in DOMAIN cmd :
          cmd[c].pc = "done" => app.downloader_lock # c /\ app.updater_lock # c
    /\ app.downloader_lock \notin WaitsForUpdater
    /\ \A c \in DOMAIN cmd : ~(app.downloader_lock = c /\ app.updater_lock = c)

\* C28: the commands cannot deadlock on the two locks.  A command that has
\* returned holds neither lock, so a download in flight holds none; the holder
\* of the downloader lock never waits for the updater lock; and every command
\* (another start_download, a get_video_info, a download_ytdlp with its
\* re-initialisation step, a get_app_status with its background tasks)
\* completes, whether or not the downloads in flight ever end.
C28_NoDeadlockOnLocks ==
    /\ []LocksNotHeldAcross
    /\ <>[](\A c \in DOMAIN cmd : Completed(c))

C28_Witness ==
    /\ InFlight(1) /\ dl[1].pc = "loop" /\ dl[1].child.state = "running"
    /\ cmd[2].kind = "get_video_info" /\ cmd[2].pc = "done" /\ info[2].pc = "done"
    /\ cmd[3].kind = "download_ytdlp" /\ cmd[3].result.kind = "Ok"
    /\ app.downloader /\ app.downloader_lock = 0 /\ app.updater_lock = 0

=============================================================================
